------------------------ MODULE FormatterRegistryProofs ------------------------
(***************************************************************************)
(* Proofs about FormatterRegistry, for every set of formatters, whatever   *)
(* names they share and whatever languages they declare.                   *)
(*                                                                         *)
(* The first part is about the maps of names, the second about the loops   *)
(* of Register and Remove: what a loop does to one slice is the value of a *)
(* recursive function, and what holds before each turn is carried to the   *)
(* last by Induction.  The third is about what a reader sees of the        *)
(* arrays, the fourth about the order of the index.                        *)
(***************************************************************************)
EXTENDS FormatterRegistry, SequenceTheorems, FiniteSetTheorems, WellFoundedInduction, TLAPS

USE NameAssumption, NoneAssumption

\* A formatter and its metadata are kept under its own name.
NamesInv ==
    /\ formatters \in [Names -> Formatters \cup {None}]
    /\ metadata \in [Names -> Formatters \cup {None}]
    /\ \A n \in Names : /\ formatters[n] # None => NameOf[formatters[n]] = n
                        /\ metadata[n] # None => NameOf[metadata[n]] = n

\* What was checked when the lock was taken still holds when the maps are changed.
WriterInv ==
    writer # None =>
        /\ writer.f \in Formatters /\ writer.op \in {"register", "remove"}
        /\ formatters[NameOf[writer.f]] = IF writer.op = "register" THEN None ELSE writer.f
        /\ writer.by \in Callers \cup {None}
        /\ writer.by \in Callers => pending[writer.by] = None

\* What a caller has still to store the metadata of is registered, or was removed meanwhile.
PendingInv ==
    /\ pending \in [Callers -> Formatters \cup {None}]
    /\ overtaken \subseteq {c \in Callers : pending[c] # None}
    /\ \A c \in Callers \ overtaken :
          pending[c] # None => formatters[NameOf[pending[c]]] = pending[c]

FiledInv == filed \in [Names -> {"nothing", "own", "stale"}]

IInv == NamesInv /\ WriterInv /\ PendingInv /\ FiledInv /\ MetadataOwned
-----------------------------------------------------------------------------
\* The invariant holds of the empty registry.
LEMMA InitInv == Init => IInv
  BY DEF Init, IInv, NamesInv, WriterInv, PendingInv, FiledInv, MetadataOwned

\* Every step keeps the invariant: the lock is held from the look at the maps to their change.
LEMMA NextInv == IInv /\ [Next]_vars => IInv'
  <1> SUFFICES ASSUME IInv, [Next]_vars PROVE IInv'
    OBVIOUS
  <1> USE DEF IInv, NamesInv, WriterInv, PendingInv, FiledInv, MetadataOwned, readers, history
  <1>1. CASE UNCHANGED vars
    BY <1>1 DEF vars
  <1>2. ASSUME NEW f \in Formatters, NEW c \in Callers \cup {None}, RegisterBegins(f, c)
        PROVE  IInv'
    <2>1. /\ writer' = [op |-> "register", f |-> f, by |-> c] /\ (c # None => pending[c] = None)
          /\ formatters[NameOf[f]] = None
          /\ UNCHANGED <<formatters, metadata, pending, overtaken, filed>>
      BY <1>2 DEF RegisterBegins
    <2>2. writer'.f = f /\ writer'.op = "register" /\ writer'.by = c
      BY <2>1
    <2> QED
      BY <2>1, <2>2
  <1>3. CASE RegisterEnds
    <2> DEFINE f == writer.f
               b == writer.by
    <2>1. /\ writer # None /\ writer.op = "register"
          /\ formatters' = [formatters EXCEPT ![NameOf[f]] = f]
          /\ pending' = [c \in Callers |-> IF c = b THEN f ELSE pending[c]]
          /\ overtaken' = overtaken /\ filed' = filed
          /\ writer' = None /\ metadata' = metadata
      BY <1>3 DEF RegisterEnds
    <2>2. /\ f \in Formatters /\ NameOf[f] \in Names /\ formatters[NameOf[f]] = None
          /\ b \in Callers => pending[b] = None
      BY <2>1
    <2> HIDE DEF f, b
    <2>3. NamesInv'
      BY <2>1, <2>2
    <2>4. PendingInv'
      <3>1. pending' \in [Callers -> Formatters \cup {None}]
        BY <2>1, <2>2
      <3>2. overtaken' \subseteq {c \in Callers : pending'[c] # None}
        BY <2>1, <2>2
      <3>3. ASSUME NEW c \in Callers \ overtaken', pending'[c] # None
            PROVE  formatters'[NameOf[pending'[c]]] = pending'[c]
        <4>1. CASE c = b
          BY <4>1, <2>1, <2>2
        <4>2. CASE c # b
          BY <4>2, <3>3, <2>1, <2>2
        <4> QED
          BY <4>1, <4>2
      <3> QED
        BY <3>1, <3>2, <3>3
    <2>5. MetadataOwned'
      BY <2>1, <2>2
    <2> QED
      BY <2>1, <2>3, <2>4, <2>5
  <1>4. ASSUME NEW c \in Callers, StoreMetadata(c) PROVE IInv'
    <2> DEFINE f == pending[c]
    <2>1. /\ f # None /\ writer = None /\ writer' = None /\ formatters' = formatters
          /\ metadata' = [metadata EXCEPT ![NameOf[f]] = f]
          /\ filed' = [filed EXCEPT ![NameOf[f]] = IF c \in overtaken THEN "stale" ELSE "own"]
          /\ pending' = [pending EXCEPT ![c] = None] /\ overtaken' = overtaken \ {c}
      BY <1>4 DEF StoreMetadata
    <2>2. /\ f \in Formatters /\ NameOf[f] \in Names
          /\ c \notin overtaken => formatters[NameOf[f]] = f
      BY <2>1
    <2> HIDE DEF f
    <2>3. NamesInv' /\ FiledInv'
      BY <2>1, <2>2
    <2>4. PendingInv'
      BY <2>1
    <2>5. MetadataOwned'
      BY <2>1, <2>2
    <2> QED
      BY <2>1, <2>3, <2>4, <2>5
  <1>5. ASSUME NEW n \in Names, RemoveBegins(n) PROVE IInv'
    <2>1. /\ writer' = [op |-> "remove", f |-> formatters[n], by |-> None] /\ formatters[n] # None
          /\ UNCHANGED <<formatters, metadata, pending, overtaken, filed>>
      BY <1>5 DEF RemoveBegins
    <2>2. /\ writer'.f = formatters[n] /\ writer'.op = "remove" /\ writer'.by = None
          /\ NameOf[formatters[n]] = n
      BY <2>1
    <2> QED
      BY <2>1, <2>2
  <1>6. CASE RemoveEnds
    <2> DEFINE f == writer.f
    <2>1. /\ writer # None /\ writer.op = "remove"
          /\ formatters' = [formatters EXCEPT ![NameOf[f]] = None]
          /\ metadata' = [metadata EXCEPT ![NameOf[f]] = None]
          /\ overtaken' = overtaken \cup {c \in Callers : /\ pending[c] # None
                                                          /\ NameOf[pending[c]] = NameOf[f]}
          /\ filed' = [filed EXCEPT ![NameOf[f]] = "nothing"]
          /\ writer' = None /\ pending' = pending
      BY <1>6 DEF RemoveEnds, Overtakes
    <2>2. f \in Formatters /\ NameOf[f] \in Names /\ formatters[NameOf[f]] = f
      BY <2>1
    <2> HIDE DEF f
    <2>3. NamesInv' /\ FiledInv' /\ MetadataOwned'
      BY <2>1, <2>2
    <2>4. PendingInv'
      BY <2>1, <2>2
    <2> QED
      BY <2>1, <2>3, <2>4
  <1>7. ASSUME NEW r \in Readers,
               ReadFirst(r) \/ \E s \in Spellings : GetByLanguage(r, s)
        PROVE  IInv'
    BY <1>7 DEF ReadFirst, GetByLanguage
  <1> QED
    BY <1>1, <1>2, <1>3, <1>4, <1>5, <1>6, <1>7 DEF Next

\* For every set of formatters, also where several have one name, and any number of callers:
\* the metadata stored under a name is of the formatter registered under it, unless a removal overtook
\* the call that stored it.
THEOREM MetadataOwnedCorrect == Spec => []MetadataOwned
  <1>1. IInv => MetadataOwned
    BY DEF IInv
  <1> QED
    BY InitInv, NextInv, <1>1, PTL DEF Spec
-----------------------------------------------------------------------------
\* Induction over the numbers, for a set of them.
LEMMA Induction == ASSUME NEW S \in SUBSET Nat, 0 \in S, \A n \in S : n + 1 \in S PROVE S = Nat
  <1>1. SUFFICES ASSUME Nat \ S # {} PROVE FALSE
    OBVIOUS
  <1>2. PICK m \in Nat \ S : \A k \in Nat \ S : <<k, m>> \notin OpToRel(<, Nat)
    <2>1. Nat \ S \subseteq Nat
      OBVIOUS
    <2> QED
      BY <1>1, <2>1, NatLessThanWellFounded, WFMin
  <1>3. /\ m \in Nat /\ m # 0 /\ m - 1 \in Nat /\ (m - 1) + 1 = m /\ m - 1 < m
    <2>1. m \in Nat /\ m # 0
      OBVIOUS
    <2> HIDE <1>2
    <2> QED
      BY <2>1
  <1>4. m - 1 \notin S
    <2> HIDE <1>2
    <2> QED
      BY <1>3
  <1>5. <<m - 1, m>> \in OpToRel(<, Nat)
    BY <1>3, Zenon DEF OpToRel
  <1> QED
    BY <1>2, <1>3, <1>4, <1>5, Zenon


\* One turn of the loop of Register or of Remove.
Turn(op, slice, f) ==
    IF op = "register" THEN AppendTo(slice, f) ELSE RemoveFrom(slice, NameOf[f])

\* a[n] is what n turns make of the slice b, up to N of them.
IsRun(a, op, f, b, N) == a = [n \in 0 .. N |-> IF n = 0 THEN b ELSE Turn(op, a[n - 1], f)]

\* After any number of turns there is a slice.
LEMMA LoopRuns ==
    ASSUME NEW op, NEW f, NEW b, NEW N \in Nat
    PROVE  \E a : IsRun(a, op, f, b, N)
  <1> DEFINE Run(a, n) == a = [k \in 0 .. n |-> IF k = 0 THEN b ELSE Turn(op, a[k - 1], f)]
             S == {n \in Nat : \E a : Run(a, n)}
  <1>1. 0 \in S
    <2> DEFINE a == [k \in 0 .. 0 |-> b]
    <2>1. Run(a, 0)
      OBVIOUS
    <2> HIDE DEF a, Run
    <2> QED
      BY <2>1
  <1>2. ASSUME NEW n \in S PROVE n + 1 \in S
    <2>1. PICK a : Run(a, n)
      OBVIOUS
    <2> DEFINE c == [k \in 0 .. n + 1 |-> IF k = n + 1 THEN Turn(op, a[n], f) ELSE a[k]]
               d == [k \in 0 .. n + 1 |-> IF k = 0 THEN b ELSE Turn(op, c[k - 1], f)]
    <2>2. n \in Nat
      OBVIOUS
    <2>3. ASSUME NEW k \in 0 .. n + 1 PROVE c[k] = d[k]
      <3>1. k # 0 => c[k - 1] = a[k - 1]
        BY <2>2
      <3> QED
        BY <2>1, <2>2, <3>1
    <2>4. Run(c, n + 1)
      <3>1. c = [k \in 0 .. n + 1 |-> c[k]] /\ d = [k \in 0 .. n + 1 |-> d[k]]
        OBVIOUS
      <3>2. c = d
        <4> HIDE DEF c, d
        <4> QED
          BY <2>3, <3>1
      <3> HIDE DEF c
      <3> QED
        BY <3>2
    <2> HIDE DEF Run, c
    <2> QED
      BY <2>2, <2>4
  <1>3. N \in S
    <2> HIDE DEF S
    <2>1. S \in SUBSET Nat
      BY DEF S
    <2> QED
      BY <1>1, <1>2, <2>1, Induction
  <1> QED
    BY <1>3 DEF IsRun

\* What each turn leads to from what was there before it holds in the end.
LEMMA LoopLeads ==
    ASSUME NEW op, NEW f, NEW N \in Nat, NEW a, NEW b,
           IsRun(a, op, f, b, N),
           NEW I, b \in I[0],
           \A n \in 0 .. N - 1 : \A s \in I[n] : Turn(op, s, f) \in I[n + 1]
    PROVE  a[N] \in I[N]
  <1> DEFINE S == {n \in Nat : n <= N => a[n] \in I[n]}
  <1>1. 0 \in S
    BY DEF IsRun
  <1>2. ASSUME NEW n \in S PROVE n + 1 \in S
    <2>1. n \in Nat /\ n + 1 \in Nat /\ n + 1 # 0 /\ (n + 1) - 1 = n
      OBVIOUS
    <2>2. ASSUME n + 1 <= N PROVE a[n + 1] \in I[n + 1]
      <3>1. n \in 0 .. N - 1 /\ n + 1 \in 0 .. N /\ a[n] \in I[n]
        BY <2>1, <2>2
      <3>2. a[n + 1] = Turn(op, a[n], f)
        BY <2>1, <3>1 DEF IsRun
      <3> QED
        BY <3>1, <3>2
    <2> QED
      BY <2>1, <2>2
  <1>3. N \in S
    <2> HIDE DEF S
    <2>1. S \in SUBSET Nat
      BY DEF S
    <2> QED
      BY <1>1, <1>2, <2>1, Induction
  <1> QED
    BY <1>3

\* The number of turns is a number.
LEMMA TurnsAreFinite == \A f \in Formatters, l \in Languages : Turns(f, l) \in Nat
  <1> SUFFICES ASSUME NEW f \in Formatters, NEW l \in Languages PROVE Turns(f, l) \in Nat
    OBVIOUS
  <1> DEFINE T == {i \in DOMAIN Declares[f] : Lower[Declares[f][i]] = l}
             n == Len(Declares[f])
  <1>1. Declares[f] \in Seq(Spellings)
    BY DeclaresAssumption
  <1>2. n \in Nat /\ DOMAIN Declares[f] = 1 .. n
    BY <1>1, LenProperties
  <1>3. T \subseteq 1 .. n
    BY <1>2
  <1> HIDE DEF T, n
  <1>4. IsFiniteSet(1 .. n)
    BY <1>2, FS_Interval
  <1>5. Cardinality(T) \in Nat
    BY <1>3, <1>4, FS_Subset, FS_CardinalityType
  <1> QED
    BY <1>5 DEF T, Turns

\* The loop of Register, turn by turn.
LEMMA AppendLoop ==
    ASSUME NEW f \in Formatters, NEW l \in Languages, NEW I,
           [cells |-> byLanguage[l].cells, len |-> byLanguage[l].len, left |-> None] \in I[0],
           \A n \in 0 .. Turns(f, l) - 1 : \A s \in I[n] : AppendTo(s, f) \in I[n + 1]
    PROVE  WithAppended(f, l) \in I[Turns(f, l)]
  <1> DEFINE N == Turns(f, l)
             b == [cells |-> byLanguage[l].cells, len |-> byLanguage[l].len, left |-> None]
             Is(a) == a = [n \in 0 .. N |-> IF n = 0 THEN b ELSE AppendTo(a[n - 1], f)]
             run == CHOOSE a : Is(a)
  <1>1. N \in Nat
    BY TurnsAreFinite
  <1>2. WithAppended(f, l) = run[N]
    BY DEF WithAppended
  <1>3. Is(run)
    <2>1. \E a : IsRun(a, "register", f, b, N)
      <3> HIDE DEF N, b
      <3> QED
        BY <1>1, LoopRuns
    <2>2. \E a : Is(a)
      BY <2>1, ZenonT(40) DEF IsRun, Turn
    <2> HIDE DEF Is
    <2> QED
      BY <2>2
  <1>4. run[N] \in I[N]
    <2>1. IsRun(run, "register", f, b, N)
      <3> HIDE DEF run
      <3> QED
        BY <1>3 DEF IsRun, Turn
    <2>2. \A n \in 0 .. N - 1 : \A s \in I[n] : Turn("register", s, f) \in I[n + 1]
      BY DEF Turn
    <2>3. b \in I[0]
      OBVIOUS
    <2> HIDE DEF N, b, run
    <2> QED
      BY <1>1, <2>1, <2>2, <2>3, LoopLeads
  <1> QED
    BY <1>2, <1>4

\* The loop of Remove, turn by turn.
LEMMA RemoveLoop ==
    ASSUME NEW f \in Formatters, NEW l \in Languages, NEW I, byLanguage[l] \in I[0],
           \A n \in 0 .. Turns(f, l) - 1 :
              \A s \in I[n] : RemoveFrom(s, NameOf[f]) \in I[n + 1]
    PROVE  Without(f, l) \in I[Turns(f, l)]
  <1> DEFINE N == Turns(f, l)
             b == byLanguage[l]
             Is(a) == a = [n \in 0 .. N |-> IF n = 0 THEN b ELSE RemoveFrom(a[n - 1], NameOf[f])]
             run == CHOOSE a : Is(a)
  <1>1. N \in Nat
    BY TurnsAreFinite
  <1>2. Without(f, l) = run[N]
    BY DEF Without
  <1>3. Is(run)
    <2>1. \E a : IsRun(a, "remove", f, b, N)
      <3> HIDE DEF N, b
      <3> QED
        BY <1>1, LoopRuns
    <2>2. \E a : Is(a)
      BY <2>1 DEF IsRun, Turn
    <2> HIDE DEF Is
    <2> QED
      BY <2>2
  <1>4. run[N] \in I[N]
    <2>1. IsRun(run, "remove", f, b, N)
      <3> HIDE DEF run
      <3> QED
        BY <1>3 DEF IsRun, Turn
    <2>2. \A n \in 0 .. N - 1 : \A s \in I[n] : Turn("remove", s, f) \in I[n + 1]
      BY DEF Turn
    <2>3. b \in I[0]
      OBVIOUS
    <2> HIDE DEF N, b, run
    <2> QED
      BY <1>1, <2>1, <2>2, <2>3, LoopLeads
  <1> QED
    BY <1>2, <1>4

Cells == Seq(Formatters \cup {None})

\* The slice that the loop of Register works on, with the array it has left behind.
Growing == [cells : Cells, len : Nat, left : Cells \cup {None}]

\* A function on 1 .. n is a sequence of that length.
LEMMA FunctionIsSeq ==
    ASSUME NEW S, NEW n \in Nat, NEW g \in [1 .. n -> S]
    PROVE  g \in Seq(S) /\ Len(g) = n
  OBVIOUS

\* A set of indices that is not empty has a least one.
LEMMA LeastIndex ==
    ASSUME NEW n \in Nat, NEW T \in SUBSET (1 .. n), T # {}
    PROVE  \E x \in T : \A y \in T : x <= y
  <1>1. T \subseteq Nat
    OBVIOUS
  <1>2. PICK x \in T : \A y \in T : <<y, x>> \notin OpToRel(<, Nat)
    BY <1>1, NatLessThanWellFounded, WFMin
  <1>3. ASSUME NEW y \in T PROVE ~ (y < x)
    <2>1. x \in Nat /\ y \in Nat /\ <<y, x>> \notin OpToRel(<, Nat)
      BY <1>1, <1>2, Zenon
    <2> QED
      BY <2>1, Zenon DEF OpToRel
  <1>4. \A y \in T : x <= y
    <2>1. x \in T
      OBVIOUS
    <2> HIDE <1>2
    <2> QED
      BY <1>1, <1>3, <2>1
  <1> QED
    BY <1>4, Zenon

\* append: the elements that were there stay, the new one comes behind them, and an array that
\* is left behind is the one there was, unless another was left behind before.
LEMMA AppendToSlice ==
    ASSUME NEW s \in Growing, s.len <= Len(s.cells), NEW f \in Formatters
    PROVE  LET t == AppendTo(s, f) IN
           /\ t \in Growing /\ t.len = s.len + 1 /\ t.len <= Len(t.cells)
           /\ \A p \in 1 .. s.len : t.cells[p] = s.cells[p]
           /\ t.cells[t.len] = f
           /\ t.left = s.left \/ (s.left = None /\ t.left = s.cells)
  <1> DEFINE t == AppendTo(s, f)
             F == Formatters \cup {None}
             n == Len(s.cells)
  <1>1. /\ s.cells \in Seq(F) /\ s.len \in Nat /\ s.left \in Cells \cup {None}
        /\ n \in Nat /\ f \in F /\ s.len <= n
    BY LenProperties DEF Growing, Cells
  <1>2. CASE s.len < n
    <2> DEFINE c == [s.cells EXCEPT ![s.len + 1] = f]
    <2>1. s.len + 1 \in 1 .. n
      <3> HIDE DEF n
      <3> QED
        BY <1>1, <1>2
    <2>2. c \in Seq(F) /\ Len(c) = n /\ \A j \in 1 .. n : c[j] = IF j = s.len + 1 THEN f ELSE s.cells[j]
      BY <1>1, <2>1, ExceptSeq
    <2>3. t = [s EXCEPT !.cells = c, !.len = s.len + 1]
      BY <1>2 DEF AppendTo
    <2> HIDE DEF c, t, F, n
    <2>4. t = [cells |-> c, len |-> s.len + 1, left |-> s.left]
      BY <2>3 DEF Growing
    <2>5. \A p \in 1 .. s.len : p \in 1 .. n /\ p # s.len + 1
      BY <1>1, <2>1
    <2> QED
      BY <1>1, <2>1, <2>2, <2>4, <2>5 DEF Growing, Cells, F, t
  <1>3. CASE ~ (s.len < n)
    <2> DEFINE room == IF s.len = 0 THEN 1 ELSE 2 * s.len
               c == [i \in 1 .. room |-> IF i <= s.len THEN s.cells[i]
                                         ELSE IF i = s.len + 1 THEN f ELSE None]
    <2>1. room \in Nat /\ s.len + 1 \in 1 .. room /\ s.len \in 0 .. n
      <3> HIDE DEF n
      <3> QED
        BY <1>1, <1>3
    <2>2. t = [cells |-> c, len |-> s.len + 1,
               left |-> IF s.left = None THEN s.cells ELSE s.left]
      BY <1>3 DEF AppendTo
    <2>3. c \in [1 .. room -> F]
      <3>1. \A i \in 1 .. room : i <= s.len => i \in 1 .. n
        BY <2>1
      <3>2. \A i \in 1 .. n : s.cells[i] \in F
        BY <1>1, ElementOfSeq
      <3> HIDE DEF room, n
      <3> QED
        BY <1>1, <3>1, <3>2
    <2>4. /\ \A p \in 1 .. s.len : c[p] = s.cells[p]
          /\ c[s.len + 1] = f
      <3> HIDE DEF room, n
      <3> QED
        BY <1>1, <2>1
    <2> HIDE DEF c
    <2>5. c \in Seq(F) /\ Len(c) = room
      <3> HIDE DEF room, F
      <3> QED
        BY <2>1, <2>3, FunctionIsSeq
    <2> HIDE DEF t, room, n
    <2> QED
      BY <1>1, <2>1, <2>2, <2>4, <2>5 DEF Growing, Cells, t
  <1> QED
    BY <1>2, <1>3, <1>1

\* Removing one element: nothing happens, or those behind the first with the name move up.
LEMMA RemoveFromSlice ==
    ASSUME NEW s \in Slice, s.len <= Len(s.cells), NEW n
    PROVE  LET t == RemoveFrom(s, n) IN
           /\ t \in Slice /\ Len(t.cells) = Len(s.cells)
           /\ \/ FoundAt(s, n) = {} /\ t = s
              \/ \E i \in FoundAt(s, n) :
                    /\ \A j \in FoundAt(s, n) : i <= j
                    /\ t.len = s.len - 1
                    /\ \A p \in 1 .. Len(s.cells) :
                          t.cells[p] = IF i <= p /\ p < s.len THEN s.cells[p + 1] ELSE s.cells[p]
  <1> DEFINE t == RemoveFrom(s, n)
             F == Formatters \cup {None}
             m == Len(s.cells)
  <1>1. s.cells \in Seq(F) /\ s.len \in Nat /\ m \in Nat /\ DOMAIN s.cells = 1 .. m /\ s.len <= m
    BY LenProperties DEF Slice
  <1>2. CASE FoundAt(s, n) = {}
    BY <1>2 DEF RemoveFrom
  <1>3. CASE FoundAt(s, n) # {}
    <2> DEFINE i == CHOOSE x \in FoundAt(s, n) : \A y \in FoundAt(s, n) : x <= y
               c == [j \in 1 .. m |-> IF j \in i .. s.len - 1 THEN s.cells[j + 1] ELSE s.cells[j]]
    <2>1. i \in FoundAt(s, n) /\ \A y \in FoundAt(s, n) : i <= y
      <3>1. FoundAt(s, n) \in SUBSET (1 .. s.len)
        BY DEF FoundAt
      <3>2. \E x \in FoundAt(s, n) : \A y \in FoundAt(s, n) : x <= y
        BY <1>1, <1>3, <3>1, LeastIndex
      <3> QED
        BY <3>2
    <2>2. t = [s EXCEPT !.cells = [j \in DOMAIN s.cells |-> IF j \in i .. s.len - 1
                                                  THEN s.cells[j + 1] ELSE s.cells[j]],
                        !.len = s.len - 1]
      BY <1>3 DEF RemoveFrom, CutOut
    <2>3. t = [s EXCEPT !.cells = c, !.len = s.len - 1]
      BY <1>1, <2>2
    <2>4. i \in 1 .. s.len
      BY <2>1 DEF FoundAt
    <2> HIDE DEF i
    <2>5. \A p \in 1 .. m : c[p] = IF i <= p /\ p < s.len THEN s.cells[p + 1] ELSE s.cells[p]
      <3> HIDE DEF m
      <3> QED
        BY <1>1, <2>4
    <2>6. c \in [1 .. m -> F]
      <3>1. \A j \in 1 .. m : s.cells[j] \in F
        BY <1>1, ElementOfSeq
      <3>2. \A j \in 1 .. m : j \in i .. s.len - 1 => j + 1 \in 1 .. m
        <4> HIDE DEF m
        <4> QED
          BY <1>1, <2>4
      <3> HIDE DEF m
      <3> QED
        BY <3>1, <3>2
    <2> HIDE DEF c
    <2>7. c \in Seq(F) /\ Len(c) = m
      <3> HIDE DEF F, m
      <3> QED
        BY <1>1, <2>6, FunctionIsSeq
    <2> HIDE DEF t, m
    <2>8. t = [cells |-> c, len |-> s.len - 1]
      BY <2>3 DEF Slice
    <2>9. s.len - 1 \in Nat
      BY <1>1, <2>4
    <2> QED
      BY <2>1, <2>5, <2>7, <2>8, <2>9 DEF Slice, t, m
  <1> QED
    BY <1>2, <1>3

\* A slice of the index.
Proper(slice) == slice \in Slice /\ slice.len <= Len(slice.cells)

\* What Register makes of the slice of a language: the formatter stands behind what was there, as
\* often as it declares the language.
LEMMA AppendedSlice ==
    ASSUME NEW f \in Formatters, NEW l \in Languages, Proper(byLanguage[l])
    PROVE  LET old == byLanguage[l]
               t   == WithAppended(f, l) IN
           /\ t \in Growing /\ t.len = old.len + Turns(f, l) /\ t.len <= Len(t.cells)
           /\ \A p \in 1 .. old.len : t.cells[p] = old.cells[p]
           /\ \A p \in old.len + 1 .. t.len : t.cells[p] = f
  <1> DEFINE old == byLanguage[l]
             N == Turns(f, l)
             P(s, n) == /\ s.len = old.len + n /\ s.len <= Len(s.cells)
                        /\ \A p \in 1 .. old.len : s.cells[p] = old.cells[p]
                        /\ \A p \in old.len + 1 .. s.len : s.cells[p] = f
             I == [n \in 0 .. N |-> {s \in Growing : P(s, n)}]
             b == [cells |-> old.cells, len |-> old.len, left |-> None]
  <1>1. N \in Nat /\ old.len \in Nat /\ old.cells \in Cells /\ old.len <= Len(old.cells)
    BY TurnsAreFinite DEF Proper, Slice, Cells
  <1> HIDE DEF N, old
  <1>2. b \in I[0]
    BY <1>1 DEF Growing
  <1>3. ASSUME NEW n \in 0 .. N - 1, NEW s \in I[n] PROVE AppendTo(s, f) \in I[n + 1]
    <2> DEFINE t == AppendTo(s, f)
    <2>1. s \in Growing /\ P(s, n) /\ n \in Nat /\ n + 1 \in 0 .. N
      BY <1>1
    <2>2. /\ t \in Growing /\ t.len = s.len + 1 /\ t.len <= Len(t.cells)
          /\ \A p \in 1 .. s.len : t.cells[p] = s.cells[p]
          /\ t.cells[t.len] = f
      BY <2>1, AppendToSlice
    <2> HIDE DEF t, I
    <2>3. P(t, n + 1)
      <3>1. t.len = old.len + (n + 1)
        <4>1. old.len \in Nat /\ n \in Nat /\ s.len = old.len + n /\ t.len = s.len + 1
          BY <1>1, <2>1, <2>2
        <4> QED
          BY <4>1
      <3>2. \A p \in 1 .. old.len : p \in 1 .. s.len
        BY <1>1, <2>1
      <3>3. \A p \in old.len + 1 .. t.len : p = t.len \/ (p \in 1 .. s.len /\ p \in old.len + 1 .. s.len)
        BY <1>1, <2>1, <2>2
      <3> QED
        BY <2>1, <2>2, <3>1, <3>2, <3>3
    <2> HIDE DEF P
    <2>4. t \in I[n + 1]
      BY <2>1, <2>2, <2>3 DEF I
    <2> QED
      BY <2>4 DEF t
  <1>4. WithAppended(f, l) \in I[N]
    <2> HIDE DEF I
    <2> QED
      BY <1>2, <1>3, AppendLoop DEF N, old, b
  <1>5. WithAppended(f, l) \in Growing /\ P(WithAppended(f, l), N)
    BY <1>1, <1>4
  <1> QED
    BY <1>5 DEF N, old

\* Whoever may be shown what is in the slice, which has had an element, and its first element.
Shows(slice, W) ==
    /\ Len(slice.cells) >= 1
    /\ \A p \in 1 .. Len(slice.cells) : p = 1 \/ p <= slice.len => slice.cells[p] \in W

\* Register shows nothing new but the formatter it registers, neither in the slice nor in the
\* array that it leaves behind.
LEMMA AppendedShows ==
    ASSUME NEW f \in Formatters, NEW l \in Languages, NEW W, Proper(byLanguage[l]),
           Shows(byLanguage[l], W), Turns(f, l) > 0 => f \in W
    PROVE  LET t == WithAppended(f, l) IN
           /\ Shows(t, W)
           /\ t.left = None \/ t.left[1] \in W
  <1> DEFINE old == byLanguage[l]
             N == Turns(f, l)
             P(s) == /\ s.len <= Len(s.cells)
                     /\ Shows(s, W) /\ (s.left = None \/ s.left[1] \in W)
             I == [n \in 0 .. N |-> {s \in Growing : P(s)}]
             b == [cells |-> old.cells, len |-> old.len, left |-> None]
  <1>1. N \in Nat /\ old.len \in Nat /\ old.cells \in Cells /\ old.len <= Len(old.cells)
    BY TurnsAreFinite DEF Proper, Slice, Cells
  <1>2. b \in I[0]
    <2>1. Shows(old, W)
      OBVIOUS
    <2> HIDE DEF N, old
    <2> QED
      BY <1>1, <2>1 DEF Growing, Shows
  <1>3. ASSUME NEW n \in 0 .. N - 1, NEW s \in I[n] PROVE AppendTo(s, f) \in I[n + 1]
    <2> DEFINE t == AppendTo(s, f)
    <2>0. N > 0 /\ N \in Nat
      <3> HIDE DEF N
      <3> QED
        BY <1>1
    <2>1. s \in Growing /\ P(s) /\ n + 1 \in 0 .. N /\ f \in W
      <3>1. f \in W
        BY <2>0
      <3> HIDE DEF N
      <3> QED
        BY <1>1, <3>1
    <2>2. /\ t \in Growing /\ t.len = s.len + 1 /\ t.len <= Len(t.cells)
          /\ \A p \in 1 .. s.len : t.cells[p] = s.cells[p]
          /\ t.cells[t.len] = f
          /\ t.left = s.left \/ (s.left = None /\ t.left = s.cells)
      BY <2>1, AppendToSlice
    <2>3. s.len \in Nat /\ Len(s.cells) \in Nat /\ Len(t.cells) \in Nat
      BY <2>1, <2>2, LenProperties DEF Growing, Cells
    <2> HIDE DEF t, I, N
    <2>4. \A p \in 1 .. t.len : t.cells[p] \in W
      <3>1. \A p \in 1 .. t.len : p = t.len \/ (p \in 1 .. s.len /\ p \in 1 .. Len(s.cells))
        BY <2>1, <2>2, <2>3
      <3>2. \A p \in 1 .. Len(s.cells) : p <= s.len => s.cells[p] \in W
        BY <2>1 DEF Shows
      <3> QED
        BY <2>1, <2>2, <3>1, <3>2
    <2>5. Shows(t, W)
      <3>1. Len(t.cells) >= 1 /\ \A p \in 1 .. Len(t.cells) : p = 1 \/ p <= t.len => p \in 1 .. t.len
        BY <2>2, <2>3
      <3> QED
        BY <2>4, <3>1 DEF Shows
    <2>6. s.cells[1] \in W
      <3>1. 1 \in 1 .. Len(s.cells)
        BY <2>1, <2>3 DEF Shows
      <3> QED
        BY <2>1, <3>1 DEF Shows
    <2>7. P(t)
      BY <2>1, <2>2, <2>5, <2>6
    <2> HIDE DEF P
    <2>8. t \in I[n + 1]
      BY <2>1, <2>2, <2>7 DEF I
    <2> QED
      BY <2>8 DEF t
  <1>4. WithAppended(f, l) \in I[N]
    <2> HIDE DEF I
    <2> QED
      BY <1>2, <1>3, AppendLoop DEF N, old, b
  <1>5. P(WithAppended(f, l))
    <2> HIDE DEF N
    <2> QED
      BY <1>1, <1>4
  <1> QED
    BY <1>5

\* Without a turn Register leaves the slice as it is, and no array behind.
LEMMA NoTurnAppends ==
    ASSUME NEW f \in Formatters, NEW l \in Languages, Turns(f, l) = 0
    PROVE  WithAppended(f, l) =
               [cells |-> byLanguage[l].cells, len |-> byLanguage[l].len, left |-> None]
  <1> DEFINE b == [cells |-> byLanguage[l].cells, len |-> byLanguage[l].len, left |-> None]
             I == [n \in 0 .. 0 |-> {b}]
  <1>1. b \in I[0] /\ \A n \in 0 .. 0 - 1 : FALSE
    OBVIOUS
  <1>2. WithAppended(f, l) \in I[0]
    <2> HIDE DEF I
    <2> QED
      BY <1>1, AppendLoop
  <1> QED
    BY <1>2

\* Remove makes a slice of a slice, in the same array, and shows nothing new.
LEMMA RemovedShows ==
    ASSUME NEW f \in Formatters, NEW l \in Languages, Proper(byLanguage[l])
    PROVE  LET t == Without(f, l) IN
           /\ Proper(t) /\ Len(t.cells) = Len(byLanguage[l].cells)
           /\ \A W : Shows(byLanguage[l], W) => Shows(t, W)
  <1> DEFINE old == byLanguage[l]
             N == Turns(f, l)
             P(s) == /\ s.len <= Len(s.cells) /\ Len(s.cells) = Len(old.cells)
                     /\ \A W : Shows(old, W) => Shows(s, W)
             I == [n \in 0 .. N |-> {s \in Slice : P(s)}]
  <1>1. N \in Nat /\ old \in Slice /\ old.len <= Len(old.cells)
    BY TurnsAreFinite DEF Proper
  <1>2. old \in I[0]
    <2> HIDE DEF N, old
    <2> QED
      BY <1>1
  <1>3. ASSUME NEW n \in 0 .. N - 1, NEW s \in I[n] PROVE RemoveFrom(s, NameOf[f]) \in I[n + 1]
    <2> DEFINE t == RemoveFrom(s, NameOf[f])
    <2> HIDE DEF N, old
    <2>1. s \in Slice /\ P(s) /\ n + 1 \in 0 .. N
      BY <1>1
    <2>2. /\ t \in Slice /\ Len(t.cells) = Len(s.cells)
          /\ \/ t = s
             \/ \E i \in FoundAt(s, NameOf[f]) :
                    /\ t.len = s.len - 1
                    /\ \A p \in 1 .. Len(s.cells) :
                          t.cells[p] = IF i <= p /\ p < s.len THEN s.cells[p + 1] ELSE s.cells[p]
      BY <2>1, RemoveFromSlice
    <2>3. s.len \in Nat /\ Len(s.cells) \in Nat
      BY <2>1, LenProperties DEF Slice
    <2> HIDE DEF t, I
    <2>4. P(t)
      <3>1. CASE t = s
        BY <2>1, <3>1
      <3>2. ASSUME NEW i \in FoundAt(s, NameOf[f]), t.len = s.len - 1,
                   \A p \in 1 .. Len(s.cells) :
                      t.cells[p] = IF i <= p /\ p < s.len THEN s.cells[p + 1] ELSE s.cells[p]
            PROVE  P(t)
        <4>1. ASSUME NEW W, Shows(s, W) PROVE Shows(t, W)
          <5>1. ASSUME NEW p \in 1 .. Len(t.cells), p = 1 \/ p <= t.len PROVE t.cells[p] \in W
            <6> DEFINE m == Len(s.cells)
            <6>0. /\ m \in Nat /\ s.len \in Nat /\ s.len <= m /\ p \in 1 .. m
                  /\ p = 1 \/ p <= s.len - 1
              BY <2>1, <2>2, <2>3, <3>2, <5>1
            <6>1. CASE i <= p /\ p < s.len
              <7>1. p + 1 \in 1 .. m /\ p + 1 <= s.len
                <8> HIDE DEF m
                <8> QED
                  BY <6>0, <6>1
              <7> QED
                BY <3>2, <4>1, <6>0, <6>1, <7>1 DEF Shows
            <6>2. CASE ~ (i <= p /\ p < s.len)
              <7>1. p = 1 \/ p <= s.len
                <8> HIDE DEF m
                <8> QED
                  BY <6>0
              <7> QED
                BY <3>2, <4>1, <6>0, <6>2, <7>1 DEF Shows
            <6> QED
              BY <6>1, <6>2
          <5> QED
            BY <2>2, <4>1, <5>1 DEF Shows
        <4>2. t.len <= Len(t.cells)
          <5> DEFINE m == Len(s.cells)
          <5>1. m \in Nat /\ s.len \in Nat /\ s.len <= m /\ Len(t.cells) = m /\ t.len = s.len - 1
            BY <2>1, <2>2, <2>3, <3>2
          <5> HIDE DEF m
          <5> QED
            BY <5>1
        <4> QED
          BY <2>1, <2>2, <4>1, <4>2
      <3> QED
        BY <2>2, <3>1, <3>2
    <2> HIDE DEF P
    <2>5. t \in I[n + 1]
      BY <2>1, <2>2, <2>4 DEF I
    <2> QED
      BY <2>5 DEF t
  <1>4. Without(f, l) \in I[N]
    <2> HIDE DEF I
    <2> QED
      BY <1>2, <1>3, RemoveLoop DEF N, old
  <1>5. Without(f, l) \in Slice /\ P(Without(f, l))
    <2> HIDE DEF N
    <2> QED
      BY <1>1, <1>4
  <1> QED
    BY <1>5 DEF Proper

\* What Remove makes of a slice in which the formatter stands in one block, as often as it
\* declares the language: the elements behind the block move up by its length.
LEMMA RemovedBlock ==
    ASSUME NEW f \in Formatters, NEW l \in Languages, Proper(byLanguage[l]),
           NEW q \in Nat, q + Turns(f, l) <= byLanguage[l].len,
           \A p \in 1 .. q : NameOf[byLanguage[l].cells[p]] # NameOf[f],
           \A p \in q + 1 .. q + Turns(f, l) : byLanguage[l].cells[p] = f
    PROVE  LET old == byLanguage[l]
               t   == Without(f, l) IN
           /\ t.len = old.len - Turns(f, l)
           /\ \A p \in 1 .. q : t.cells[p] = old.cells[p]
           /\ \A p \in q + 1 .. t.len : t.cells[p] = old.cells[p + Turns(f, l)]
  <1> DEFINE old == byLanguage[l]
             N == Turns(f, l)
             P(s, n) == /\ s.len = old.len - n /\ Len(s.cells) = Len(old.cells)
                        /\ \A p \in 1 .. q : s.cells[p] = old.cells[p]
                        /\ \A p \in q + 1 .. s.len : s.cells[p] = old.cells[p + n]
             I == [n \in 0 .. N |-> {s \in Slice : P(s, n)}]
  <1>1. /\ N \in Nat /\ old \in Slice /\ old.len \in Nat /\ Len(old.cells) \in Nat
        /\ old.len <= Len(old.cells) /\ q + N <= old.len
        /\ \A p \in 1 .. q : NameOf[old.cells[p]] # NameOf[f]
        /\ \A p \in q + 1 .. q + N : old.cells[p] = f
    BY TurnsAreFinite, LenProperties DEF Proper, Slice
  <1>2. old \in I[0]
    <2> HIDE DEF N, old
    <2>1. P(old, 0)
      BY <1>1
    <2> HIDE DEF P
    <2> QED
      BY <1>1, <2>1
  <1>3. ASSUME NEW n \in 0 .. N - 1, NEW s \in I[n] PROVE RemoveFrom(s, NameOf[f]) \in I[n + 1]
    <2> DEFINE t == RemoveFrom(s, NameOf[f])
               m == Len(old.cells)
    <2> HIDE DEF N, old
    <2>1. s \in Slice /\ P(s, n) /\ n + 1 \in 0 .. N
      BY <1>1
    <2> HIDE DEF I
    <2>2. /\ m \in Nat /\ s.len = old.len - n /\ Len(s.cells) = m /\ old.len <= m
          /\ \A p \in 1 .. q : s.cells[p] = old.cells[p]
          /\ \A p \in q + 1 .. s.len : s.cells[p] = old.cells[p + n]
      BY <1>1, <2>1
    <2> HIDE DEF m, P
    <2>3. s.len <= Len(s.cells) /\ q + 1 <= s.len /\ s.len \in Nat
      BY <1>1, <2>2
    <2>4. q + 1 \in FoundAt(s, NameOf[f])
      <3>1. q + 1 \in q + 1 .. s.len /\ q + 1 \in 1 .. s.len /\ (q + 1) + n \in q + 1 .. q + N
        BY <1>1, <2>3
      <3>2. s.cells[q + 1] = f
        BY <1>1, <2>2, <3>1
      <3> QED
        BY <3>1, <3>2 DEF FoundAt
    <2>5. \A j \in FoundAt(s, NameOf[f]) : j \in 1 .. s.len /\ q + 1 <= j
      <3>1. \A j \in 1 .. q : j \notin FoundAt(s, NameOf[f])
        BY <1>1, <2>2 DEF FoundAt
      <3>2. \A j \in FoundAt(s, NameOf[f]) : j \in 1 .. s.len
        BY DEF FoundAt
      <3> QED
        BY <2>3, <3>1, <3>2
    <2>6. /\ t \in Slice /\ Len(t.cells) = m /\ t.len = s.len - 1
          /\ \A p \in 1 .. m :
                t.cells[p] = IF q + 1 <= p /\ p < s.len THEN s.cells[p + 1] ELSE s.cells[p]
      <3>1. /\ t \in Slice /\ Len(t.cells) = Len(s.cells)
            /\ \E i \in FoundAt(s, NameOf[f]) :
                    /\ \A j \in FoundAt(s, NameOf[f]) : i <= j
                    /\ t.len = s.len - 1
                    /\ \A p \in 1 .. Len(s.cells) :
                          t.cells[p] = IF i <= p /\ p < s.len THEN s.cells[p + 1] ELSE s.cells[p]
        BY <2>1, <2>3, <2>4, RemoveFromSlice
      <3> HIDE DEF t
      <3>2. PICK i \in FoundAt(s, NameOf[f]) :
                    /\ \A j \in FoundAt(s, NameOf[f]) : i <= j
                    /\ t.len = s.len - 1
                    /\ \A p \in 1 .. Len(s.cells) :
                          t.cells[p] = IF i <= p /\ p < s.len THEN s.cells[p + 1] ELSE s.cells[p]
        BY <3>1
      <3>3. i = q + 1
        <4>1. i <= q + 1 /\ q + 1 <= i /\ i \in 1 .. s.len
          BY <2>4, <2>5, <3>2
        <4> QED
          BY <4>1
      <3> QED
        BY <2>2, <3>1, <3>2, <3>3
    <2> HIDE DEF t
    <2>7. /\ t.len = old.len - (n + 1)
          /\ \A p \in 1 .. q : t.cells[p] = old.cells[p]
          /\ \A p \in q + 1 .. t.len : t.cells[p] = old.cells[p + (n + 1)]
      <3>1. t.len = old.len - (n + 1)
        <4>1. old.len \in Nat /\ n \in Nat /\ s.len = old.len - n /\ t.len = s.len - 1
          BY <1>1, <2>2, <2>6
        <4> QED
          BY <4>1
      <3>2. \A p \in 1 .. q : p \in 1 .. m /\ ~ (q + 1 <= p)
        BY <2>2, <2>3
      <3>3. ASSUME NEW p \in q + 1 .. t.len PROVE t.cells[p] = old.cells[p + (n + 1)]
        <4>1. p \in 1 .. m /\ q + 1 <= p /\ p < s.len /\ p + 1 \in q + 1 .. s.len
              /\ (p + 1) + n = p + (n + 1)
          BY <1>1, <2>2, <2>3, <2>6, SMTT(30)
        <4>2. t.cells[p] = s.cells[p + 1]
          BY <2>6, <4>1
        <4>3. s.cells[p + 1] = old.cells[(p + 1) + n]
          BY <2>2, <4>1
        <4> QED
          BY <4>1, <4>2, <4>3
      <3> QED
        BY <2>2, <2>6, <3>1, <3>2, <3>3
    <2>8. P(t, n + 1)
      BY <2>6, <2>7 DEF P, m
    <2>9. t \in I[n + 1]
      BY <2>1, <2>6, <2>8 DEF I
    <2> QED
      BY <2>9 DEF t
  <1>4. Without(f, l) \in I[N]
    <2> HIDE DEF I
    <2> QED
      BY <1>2, <1>3, RemoveLoop DEF N, old
  <1>5. P(Without(f, l), N)
    <2> HIDE DEF N
    <2> QED
      BY <1>1, <1>4
  <1> QED
    BY <1>5
-----------------------------------------------------------------------------
\* Every slice lies in its array, which shows formatters only as soon as it has an element.
SlicesInv ==
    /\ byLanguage \in [Languages -> Slice]
    /\ \A l \in Languages :
          /\ byLanguage[l].len <= Len(byLanguage[l].cells)
          /\ Len(byLanguage[l].cells) >= 1 => Shows(byLanguage[l], Formatters)

\* A reader that has asked finds what it may find: the array it looks at, be it still the
\* registry's or not, has shown it nothing else, and a formatter that is being registered is one of
\* those it may find.
ViewsInv ==
    /\ view = [r \in Readers |-> view[r]]
    /\ \A r \in Readers : view[r] # None =>
          /\ view[r].lang \in Languages /\ view[r].len \in Nat /\ view[r].kept \in Cells \cup {None}
          /\ view[r].len > 0 => IF view[r].kept = None THEN Shows(byLanguage[view[r].lang], window[r])
                                ELSE view[r].kept[1] \in window[r]
          /\ (writer # None /\ writer.op = "register" /\ Turns(writer.f, view[r].lang) > 0)
                => writer.f \in window[r]

FoundInv ==
    /\ found \in [Readers -> Formatters \cup {None, Torn, NotFound}]
    /\ window \in [Readers -> SUBSET Formatters]
    /\ LookupFindsRegistered

\* Languages are spellings in lower case.
LEMMA SpellingsAreLowered == \A s \in Spellings : Lower[s] \in Languages
  BY DEF Languages

\* An empty index has no slice to show.
LEMMA SlicesInit == Init => SlicesInv /\ ViewsInv /\ FoundInv
  <1> SUFFICES ASSUME Init PROVE SlicesInv /\ ViewsInv /\ FoundInv
    OBVIOUS
  <1>1. EmptySlice \in Slice /\ EmptySlice.len = 0 /\ Len(EmptySlice.cells) = 0
    BY EmptySeq DEF EmptySlice, Slice
  <1>2. SlicesInv
    BY <1>1 DEF Init, SlicesInv
  <1>3. ViewsInv
    BY DEF Init, ViewsInv
  <1>4. FoundInv
    BY DEF Init, FoundInv, LookupFindsRegistered
  <1> QED
    BY <1>2, <1>3, <1>4

\* Every step keeps the slices in their arrays.
LEMMA SlicesStep == IInv /\ SlicesInv /\ [Next]_vars => SlicesInv'
  <1> SUFFICES ASSUME IInv, SlicesInv, [Next]_vars PROVE SlicesInv'
    OBVIOUS
  <1>1. CASE UNCHANGED byLanguage
    BY <1>1 DEF SlicesInv, Shows
  <1>2. CASE RegisterEnds
    <2> DEFINE f == writer.f
    <2>1. /\ f \in Formatters
          /\ byLanguage' = [l \in Languages |-> [cells |-> WithAppended(f, l).cells,
                                                 len   |-> WithAppended(f, l).len]]
      BY <1>2 DEF RegisterEnds, IInv, WriterInv
    <2> HIDE DEF f
    <2>2. ASSUME NEW l \in Languages
          PROVE  /\ byLanguage'[l] \in Slice /\ byLanguage'[l].len <= Len(byLanguage'[l].cells)
                 /\ Len(byLanguage'[l].cells) >= 1 => Shows(byLanguage'[l], Formatters)
      <3> DEFINE old == byLanguage[l]
                 t == WithAppended(f, l)
                 m == Len(t.cells)
      <3>0. Proper(old) /\ old.len \in Nat /\ old.cells \in Cells
        BY DEF SlicesInv, Proper, Slice, Cells
      <3>1. /\ t \in Growing /\ t.len = old.len + Turns(f, l) /\ t.len <= Len(t.cells)
            /\ \A p \in 1 .. old.len : t.cells[p] = old.cells[p]
            /\ \A p \in old.len + 1 .. t.len : t.cells[p] = f
        BY <2>1, <3>0, AppendedSlice
      <3>2. /\ byLanguage'[l] \in Slice /\ byLanguage'[l].cells = t.cells
            /\ byLanguage'[l].len = t.len
        <4>1. byLanguage'[l] = [cells |-> t.cells, len |-> t.len]
          BY <2>1
        <4> HIDE DEF t
        <4> QED
          BY <3>1, <4>1 DEF Growing, Slice, Cells
      <3>3. ASSUME Len(t.cells) >= 1 PROVE Shows(t, Formatters)
        <4>1. CASE Len(old.cells) >= 1
          <5>1. Shows(old, Formatters)
            BY <4>1 DEF SlicesInv
          <5>2. Turns(f, l) > 0 => f \in Formatters
            BY <2>1
          <5> QED
            BY <2>1, <3>0, <5>1, <5>2, AppendedShows, ZenonT(40)
        <4>2. CASE ~ (Len(old.cells) >= 1)
          <5>1. old.len = 0
            <6> DEFINE k == Len(old.cells)
            <6>1. k \in Nat /\ ~ (k >= 1) /\ old.len <= k /\ old.len \in Nat
              BY <3>0, <4>2, LenProperties DEF Proper, Cells
            <6> HIDE DEF k
            <6> QED
              BY <6>1
          <5>2. Turns(f, l) \in Nat /\ m \in Nat
            BY <2>1, <3>1, TurnsAreFinite, LenProperties DEF Growing, Cells
          <5>3. Turns(f, l) > 0
            <6>1. SUFFICES ASSUME Turns(f, l) = 0 PROVE FALSE
              BY <5>2
            <6>2. t.cells = old.cells
              BY <2>1, <6>1, NoTurnAppends
            <6> QED
              BY <3>3, <4>2, <6>2
          <5>4. \A p \in 1 .. m : p = 1 \/ p <= t.len => p \in old.len + 1 .. t.len
            <6>1. t.len = Turns(f, l)
              BY <3>1, <5>1, <5>2
            <6> HIDE DEF t, m
            <6> QED
              BY <5>1, <5>2, <5>3, <6>1
          <5>5. \A p \in 1 .. m : p = 1 \/ p <= t.len => t.cells[p] \in Formatters
            BY <2>1, <3>1, <5>4
          <5> QED
            BY <3>3, <5>5 DEF Shows
        <4> QED
          BY <4>1, <4>2
      <3> HIDE DEF t, old
      <3> QED
        BY <3>1, <3>2, <3>3 DEF Shows
    <2> QED
      BY <2>1, <2>2 DEF SlicesInv, Shows
  <1>3. CASE RemoveEnds
    <2> DEFINE f == writer.f
    <2>1. f \in Formatters /\ byLanguage' = [l \in Languages |-> Without(f, l)]
      BY <1>3 DEF RemoveEnds, IInv, WriterInv
    <2> HIDE DEF f
    <2>2. ASSUME NEW l \in Languages
          PROVE  /\ Proper(byLanguage'[l])
                 /\ Len(byLanguage'[l].cells) >= 1 => Shows(byLanguage'[l], Formatters)
      <3>1. Proper(byLanguage[l])
        BY DEF SlicesInv, Proper
      <3>2. /\ Proper(Without(f, l)) /\ Len(Without(f, l).cells) = Len(byLanguage[l].cells)
            /\ \A W : Shows(byLanguage[l], W) => Shows(Without(f, l), W)
        BY <2>1, <3>1, RemovedShows
      <3> QED
        BY <2>1, <3>2 DEF SlicesInv
    <2> QED
      BY <2>1, <2>2 DEF SlicesInv, Proper, Shows
  <1> QED
    BY <1>1, <1>2, <1>3
    DEF Next, RegisterBegins, StoreMetadata, RemoveBegins, ReadFirst, GetByLanguage, vars

\* Every step keeps what a reader that has asked may be shown within its window.
LEMMA ViewsStep == IInv /\ SlicesInv /\ ViewsInv /\ FoundInv /\ [Next]_vars => ViewsInv'
  <1> SUFFICES ASSUME IInv, SlicesInv, ViewsInv, FoundInv, [Next]_vars PROVE ViewsInv'
    OBVIOUS
  <1>0. window \in [Readers -> SUBSET Formatters]
    BY DEF FoundInv
  <1>1. CASE UNCHANGED vars
    BY <1>1 DEF vars, ViewsInv, Shows
  <1>2. ASSUME NEW f \in Formatters, NEW c \in Callers \cup {None}, RegisterBegins(f, c)
        PROVE  ViewsInv'
    <2>1. /\ writer = None /\ writer'.f = f
          /\ window' = [r \in Readers |->
                          IF view[r] # None /\ Turns(f, view[r].lang) > 0
                          THEN window[r] \cup {f} ELSE window[r]]
          /\ UNCHANGED <<byLanguage, view>>
      BY <1>2 DEF RegisterBegins
    <2>2. \A r \in Readers : window[r] \subseteq window'[r]
      BY <2>1
    <2>3. \A l, W, V : Shows(byLanguage[l], W) /\ W \subseteq V => Shows(byLanguage[l], V)
      BY DEF Shows
    <2>4. ASSUME NEW r \in Readers, view'[r] # None
          PROVE  /\ view'[r].lang \in Languages /\ view'[r].len \in Nat /\ view'[r].kept \in Cells \cup {None}
                 /\ view'[r].len > 0 => IF view'[r].kept = None THEN Shows(byLanguage[view'[r].lang], window'[r])
                                       ELSE view'[r].kept[1] \in window'[r]
                 /\ Turns(f, view'[r].lang) > 0 => f \in window'[r]
      <3>1. view'[r] = view[r]
        BY <2>1
      <3>2. Turns(f, view[r].lang) > 0 => f \in window'[r]
        BY <2>1, <2>4
      <3> QED
        BY <2>2, <2>3, <2>4, <3>1, <3>2 DEF ViewsInv
    <2> QED
      BY <2>1, <2>4 DEF ViewsInv, Shows
  <1>3. CASE RegisterEnds
    <2> DEFINE f == writer.f
               t(l) == WithAppended(f, l)
    <2>1. /\ f \in Formatters /\ writer # None /\ writer.op = "register"
          /\ byLanguage' = [l \in Languages |-> [cells |-> t(l).cells, len |-> t(l).len]]
          /\ view' = [r \in Readers |-> IF view[r] = None THEN None
                                        ELSE KeepArray(view[r], t(view[r].lang).left)]
          /\ writer' = None /\ window' = window
      BY <1>3 DEF RegisterEnds, IInv, WriterInv
    <2> HIDE DEF f, t
    <2>2. ASSUME NEW r \in Readers, view'[r] # None
          PROVE  /\ view'[r].lang \in Languages /\ view'[r].len \in Nat /\ view'[r].kept \in Cells \cup {None}
                 /\ view'[r].len > 0 => IF view'[r].kept = None
                                       THEN Shows(byLanguage'[view'[r].lang], window[r])
                                       ELSE view'[r].kept[1] \in window[r]
      <3> DEFINE v == view[r]
                 l == v.lang
      <3>1. v # None /\ view'[r] = KeepArray(v, t(l).left)
        BY <2>1, <2>2
      <3>2. /\ l \in Languages /\ v.len \in Nat /\ v.kept \in Cells \cup {None}
            /\ v.len > 0 => IF v.kept = None THEN Shows(byLanguage[l], window[r])
                           ELSE v.kept[1] \in window[r]
            /\ Turns(f, l) > 0 => f \in window[r]
        BY <2>1, <3>1 DEF ViewsInv, f
      <3> HIDE DEF v, l
      <3>3. Proper(byLanguage[l])
        BY <3>2 DEF SlicesInv, Proper
      <3>4. t(l).left \in Cells \cup {None}
        BY <2>1, <3>2, <3>3, AppendedSlice DEF Growing, t
      <3>5. Shows(byLanguage[l], window[r]) =>
                Shows(t(l), window[r]) /\ (t(l).left = None \/ t(l).left[1] \in window[r])
        BY <2>1, <3>2, <3>3, AppendedShows DEF t
      <3>6. Shows(t(l), window[r]) => Shows(byLanguage'[l], window[r])
        <4>1. byLanguage'[l].cells = t(l).cells /\ byLanguage'[l].len = t(l).len
          BY <2>1, <3>2
        <4> QED
          BY <4>1 DEF Shows
      <3>7. CASE v.kept = None /\ t(l).left # None
        <4>1. view'[r] = [v EXCEPT !.kept = t(l).left]
          BY <3>1, <3>7 DEF KeepArray
        <4>2. view'[r].lang = l /\ view'[r].len = v.len /\ view'[r].kept = t(l).left
          BY <4>1 DEF l
        <4> QED
          BY <3>2, <3>4, <3>5, <3>7, <4>2
      <3>8. CASE ~ (v.kept = None /\ t(l).left # None)
        <4>1. view'[r] = v
          BY <3>1, <3>8 DEF KeepArray
        <4> QED
          BY <3>2, <3>5, <3>6, <3>8, <4>1 DEF l
      <3> QED
        BY <3>7, <3>8
    <2> QED
      BY <2>1, <2>2 DEF ViewsInv, Shows
  <1>4. ASSUME NEW c \in Callers, StoreMetadata(c) PROVE ViewsInv'
    BY <1>4 DEF StoreMetadata, readers, ViewsInv, Shows
  <1>5. ASSUME NEW n \in Names, RemoveBegins(n) PROVE ViewsInv'
    <2>1. writer'.op # "register" /\ UNCHANGED <<byLanguage, view, window>>
      BY <1>5 DEF RemoveBegins, readers
    <2> QED
      BY <2>1 DEF ViewsInv, Shows
  <1>6. CASE RemoveEnds
    <2> DEFINE f == writer.f
    <2>1. /\ f \in Formatters /\ byLanguage' = [l \in Languages |-> Without(f, l)]
          /\ writer' = None /\ UNCHANGED <<view, window>>
      BY <1>6 DEF RemoveEnds, IInv, WriterInv, readers
    <2> HIDE DEF f
    <2>2. ASSUME NEW l \in Languages, NEW W, Shows(byLanguage[l], W) PROVE Shows(byLanguage'[l], W)
      <3>1. Proper(byLanguage[l])
        BY DEF SlicesInv, Proper
      <3>2. Shows(Without(f, l), W)
        BY <2>1, <2>2, <3>1, RemovedShows
      <3> QED
        BY <2>1, <3>2
    <2> QED
      BY <2>1, <2>2 DEF ViewsInv, Shows
  <1>7. ASSUME NEW r \in Readers, ReadFirst(r) PROVE ViewsInv'
    <2>1. view' = [view EXCEPT ![r] = None] /\ UNCHANGED <<byLanguage, writer, window>>
      BY <1>7 DEF ReadFirst
    <2> QED
      BY <2>1 DEF ViewsInv, Shows
  <1>8. ASSUME NEW r \in Readers, NEW s \in Spellings, GetByLanguage(r, s) PROVE ViewsInv'
    <2> DEFINE l == Lower[s]
               slice == byLanguage[l]
               v == [lang |-> l, len |-> slice.len, kept |-> None]
               W == {f \in Formatters : \E i \in 1 .. slice.len : slice.cells[i] = f}
    <2>1. /\ writer = None /\ view' = [view EXCEPT ![r] = v] /\ window' = [window EXCEPT ![r] = W]
          /\ UNCHANGED <<byLanguage, writer>>
      BY <1>8 DEF GetByLanguage
    <2>2. l \in Languages /\ slice.len \in Nat /\ slice.len <= Len(slice.cells) /\ Len(slice.cells) \in Nat
      BY SpellingsAreLowered, LenProperties DEF SlicesInv, Slice
    <2>3. ASSUME slice.len > 0 PROVE Shows(slice, W)
      <3> DEFINE m == Len(slice.cells)
      <3>1. m >= 1 /\ \A p \in 1 .. m : p = 1 \/ p <= slice.len => p \in 1 .. slice.len
        <4>1. m \in Nat /\ slice.len \in Nat /\ slice.len <= m
          BY <2>2
        <4> HIDE DEF m
        <4> QED
          BY <2>3, <4>1
      <3>2. Shows(slice, Formatters)
        BY <2>2, <3>1 DEF SlicesInv
      <3> HIDE DEF slice
      <3> QED
        BY <3>1, <3>2 DEF Shows
    <2>4. v.lang = l /\ v.len = slice.len /\ v.kept = None
      OBVIOUS
    <2> HIDE DEF v, W, slice
    <2>5. view'[r] = v /\ window'[r] = W /\ view' = [x \in Readers |-> view'[x]]
      BY <1>0, <2>1 DEF ViewsInv
    <2>6. ASSUME NEW x \in Readers, x # r PROVE view'[x] = view[x] /\ window'[x] = window[x]
      BY <1>0, <2>1, <2>6 DEF ViewsInv
    <2>7. ASSUME NEW x \in Readers, view'[x] # None
          PROVE  /\ view'[x].lang \in Languages /\ view'[x].len \in Nat /\ view'[x].kept \in Cells \cup {None}
                 /\ view'[x].len > 0 => IF view'[x].kept = None
                                       THEN Shows(byLanguage[view'[x].lang], window'[x])
                                       ELSE view'[x].kept[1] \in window'[x]
      <3>1. CASE x = r
        BY <2>2, <2>3, <2>4, <2>5, <3>1 DEF slice
      <3>2. CASE x # r
        BY <2>6, <2>7, <3>2 DEF ViewsInv
      <3> QED
        BY <3>1, <3>2
    <2> QED
      BY <2>1, <2>5, <2>7 DEF ViewsInv, Shows
  <1> QED
    BY <1>1, <1>2, <1>3, <1>4, <1>5, <1>6, <1>7, <1>8 DEF Next

\* A lookup finds a formatter of its window, or half of one.
LEMMA FoundStep == IInv /\ SlicesInv /\ ViewsInv /\ FoundInv /\ [Next]_vars => FoundInv'
  <1> SUFFICES ASSUME IInv, SlicesInv, ViewsInv, FoundInv, [Next]_vars PROVE FoundInv'
    OBVIOUS
  <1>0. /\ window \in [Readers -> SUBSET Formatters]
        /\ found \in [Readers -> Formatters \cup {None, Torn, NotFound}]
        /\ \A r \in Readers : found[r] \in window[r] \cup {Torn, NotFound}
    BY DEF FoundInv, LookupFindsRegistered
  <1>1. CASE UNCHANGED <<found, window>>
    BY <1>0, <1>1 DEF FoundInv, LookupFindsRegistered
  <1>2. ASSUME NEW f \in Formatters, NEW c \in Callers \cup {None}, RegisterBegins(f, c)
        PROVE  FoundInv'
    <2>1. /\ window' = [r \in Readers |->
                          IF view[r] # None /\ Turns(f, view[r].lang) > 0
                          THEN window[r] \cup {f} ELSE window[r]]
          /\ found' = found
      BY <1>2 DEF RegisterBegins
    <2>2. window' \in [Readers -> SUBSET Formatters] /\ \A r \in Readers : window[r] \subseteq window'[r]
      BY <1>0, <2>1
    <2> QED
      BY <1>0, <2>1, <2>2 DEF FoundInv, LookupFindsRegistered
  <1>3. ASSUME NEW r \in Readers, ReadFirst(r) PROVE FoundInv'
    <2> DEFINE v == view[r]
               l == v.lang
    <2>1. PICK x \in FirstOf(v) : found' = [found EXCEPT ![r] = x]
      BY <1>3 DEF ReadFirst
    <2>2. v # None /\ window' = window
      BY <1>3 DEF ReadFirst
    <2>3. /\ l \in Languages /\ v.len \in Nat
          /\ v.len > 0 => IF v.kept = None THEN Shows(byLanguage[l], window[r])
                         ELSE v.kept[1] \in window[r]
          /\ (writer # None /\ writer.op = "register" /\ Turns(writer.f, l) > 0)
                => writer.f \in window[r]
      BY <2>2 DEF ViewsInv
    <2> HIDE DEF v
    <2>4. x \in window[r] \cup {Torn, NotFound}
      <3>1. CASE v.len = 0
        BY <2>1, <3>1 DEF FirstOf
      <3>2. CASE v.len # 0 /\ v.kept # None
        BY <2>1, <2>3, <3>2 DEF FirstOf
      <3>3. CASE v.len # 0 /\ v.kept = None
        <4>1. Shows(byLanguage[l], window[r])
          BY <2>3, <3>3
        <4>2. 1 \in 1 .. Len(byLanguage[l].cells) /\ byLanguage[l].cells[1] \in window[r]
          <5>1. Len(byLanguage[l].cells) \in Nat /\ Len(byLanguage[l].cells) >= 1
            BY <2>3, <4>1, LenProperties DEF SlicesInv, Slice, Shows
          <5>2. 1 \in 1 .. Len(byLanguage[l].cells)
            BY <5>1
          <5> QED
            BY <4>1, <5>2 DEF Shows
        <4>3. FirstToBe(l) \subseteq window[r]
          <5>1. CASE writer = None \/ byLanguage[l].cells = <<>> \/ Turns(writer.f, l) = 0
            BY <5>1 DEF FirstToBe
          <5>2. CASE ~ (writer = None \/ byLanguage[l].cells = <<>> \/ Turns(writer.f, l) = 0)
            <6>1. /\ writer.f \in Formatters /\ writer.op \in {"register", "remove"}
                  /\ Turns(writer.f, l) \in Nat /\ Turns(writer.f, l) > 0
              BY <2>3, <5>2, TurnsAreFinite DEF IInv, WriterInv
            <6>2. CASE writer.op = "remove"
              <7>1. Proper(byLanguage[l])
                BY <2>3 DEF SlicesInv, Proper
              <7>2. /\ Shows(Without(writer.f, l), window[r])
                    /\ Len(Without(writer.f, l).cells) = Len(byLanguage[l].cells)
                BY <2>3, <4>1, <6>1, <7>1, RemovedShows
              <7>3. Without(writer.f, l).cells[1] \in window[r]
                BY <4>2, <7>2 DEF Shows
              <7>4. FirstToBe(l) = {Without(writer.f, l).cells[1]}
                BY <5>2, <6>2 DEF FirstToBe
              <7> QED
                BY <7>3, <7>4
            <6>3. CASE writer.op = "register"
              <7>1. writer.f \in window[r]
                BY <2>3, <5>2, <6>1, <6>3
              <7>2. FirstToBe(l) \subseteq {writer.f}
                BY <5>2, <6>3 DEF FirstToBe
              <7> QED
                BY <7>1, <7>2
            <6> QED
              BY <6>1, <6>2, <6>3
          <5> QED
            BY <5>1, <5>2
        <4>4. FirstOf(v) \subseteq {byLanguage[l].cells[1]} \cup FirstToBe(l) \cup {Torn}
          BY <3>3 DEF FirstOf
        <4> QED
          BY <2>1, <4>2, <4>3, <4>4
      <3> QED
        BY <3>1, <3>2, <3>3
    <2> QED
      BY <1>0, <2>1, <2>2, <2>4 DEF FoundInv, LookupFindsRegistered
  <1>4. ASSUME NEW r \in Readers, NEW s \in Spellings, GetByLanguage(r, s) PROVE FoundInv'
    <2>1. PICK W \in SUBSET Formatters : window' = [window EXCEPT ![r] = W]
      BY <1>4 DEF GetByLanguage
    <2>2. found' = [found EXCEPT ![r] = NotFound]
      BY <1>4 DEF GetByLanguage
    <2> QED
      BY <1>0, <2>1, <2>2 DEF FoundInv, LookupFindsRegistered
  <1> QED
    BY <1>1, <1>2, <1>3, <1>4
    DEF Next, RegisterEnds, StoreMetadata, RemoveBegins, RemoveEnds, readers, vars

\* However long a reader takes to look at the slice it got, whatever is registered and removed
\* meanwhile, and whether or not the array is still the registry's: short of a torn read it finds
\* a formatter that was registered for the language since it asked.
THEOREM LookupFindsRegisteredCorrect == Spec => []LookupFindsRegistered
  <1>1. FoundInv => LookupFindsRegistered
    BY DEF FoundInv
  <1> QED
    BY InitInv, NextInv, SlicesInit, SlicesStep, ViewsStep, FoundStep, <1>1, PTL DEF Spec
-----------------------------------------------------------------------------
\* Each formatter that is registered is listed once, and nothing else is.
OrderInv ==
    /\ order \in Seq(Formatters)
    /\ \A i, j \in 1 .. Len(order) : order[i] = order[j] => i = j
    /\ IndexInOrder

\* The ends of consecutive blocks rise, and every slot up to one of them is in a block.
LEMMA BlocksRise ==
    ASSUME NEW n \in Nat, NEW end \in [0 .. n -> Nat], end[0] = 0,
           \A i \in 1 .. n : end[i - 1] <= end[i]
    PROVE  /\ \A i, j \in 0 .. n : i <= j => end[i] <= end[j]
           /\ \A j \in 0 .. n : \A p \in 1 .. end[j] :
                 \E i \in 1 .. j : p \in end[i - 1] + 1 .. end[i]
  <1> DEFINE S == {j \in Nat : j <= n =>
                     /\ \A i \in 0 .. j : end[i] <= end[j]
                     /\ \A p \in 1 .. end[j] : \E i \in 1 .. j : p \in end[i - 1] + 1 .. end[i]}
  <1>1. 0 \in S
    OBVIOUS
  <1>2. ASSUME NEW j \in S PROVE j + 1 \in S
    <2>1. j \in Nat /\ j + 1 \in Nat
      OBVIOUS
    <2>2. ASSUME j + 1 <= n
          PROVE  /\ \A i \in 0 .. j + 1 : end[i] <= end[j + 1]
                 /\ \A p \in 1 .. end[j + 1] : \E i \in 1 .. j + 1 : p \in end[i - 1] + 1 .. end[i]
      <3>1. /\ j <= n /\ j \in 0 .. n /\ j + 1 \in 1 .. n /\ j + 1 \in 0 .. n /\ (j + 1) - 1 = j
        BY <2>1, <2>2
      <3>2. /\ end[j] \in Nat /\ end[j + 1] \in Nat /\ end[j] <= end[j + 1]
            /\ \A i \in 0 .. j : end[i] \in Nat
        BY <3>1
      <3>3. /\ \A i \in 0 .. j : end[i] <= end[j]
            /\ \A p \in 1 .. end[j] : \E i \in 1 .. j : p \in end[i - 1] + 1 .. end[i]
        BY <3>1
      <3> HIDE DEF S
      <3>4. \A i \in 0 .. j + 1 : i = j + 1 \/ i \in 0 .. j
        BY <2>1
      <3>5. ASSUME NEW i \in 0 .. j + 1 PROVE end[i] <= end[j + 1]
        <4>1. CASE i = j + 1
          BY <3>2, <4>1
        <4>2. CASE i \in 0 .. j
          <5>1. end[i] \in Nat /\ end[i] <= end[j]
            BY <3>2, <3>3, <4>2
          <5> QED
            BY <3>2, <5>1
        <4> QED
          BY <3>4, <4>1, <4>2
      <3>6. ASSUME NEW p \in 1 .. end[j + 1]
            PROVE  \E i \in 1 .. j + 1 : p \in end[i - 1] + 1 .. end[i]
        <4>1. CASE p \in 1 .. end[j]
          <5>1. PICK i \in 1 .. j : p \in end[i - 1] + 1 .. end[i]
            BY <3>3, <4>1
          <5>2. i \in 1 .. j + 1
            BY <2>1
          <5> QED
            BY <5>1, <5>2
        <4>2. CASE p \notin 1 .. end[j]
          <5>1. p \in end[j] + 1 .. end[j + 1]
            BY <3>2, <4>2
          <5>2. j + 1 \in 1 .. j + 1
            BY <2>1
          <5> QED
            BY <3>1, <5>1, <5>2
        <4> QED
          BY <4>1, <4>2
      <3> QED
        BY <3>5, <3>6
    <2> QED
      BY <2>1, <2>2
  <1>3. S = Nat
    <2> HIDE DEF S
    <2>1. S \in SUBSET Nat
      BY DEF S
    <2> QED
      BY <1>1, <1>2, <2>1, Induction
  <1>4. ASSUME NEW j \in 0 .. n
        PROVE  /\ \A i \in 0 .. n : i <= j => end[i] <= end[j]
               /\ \A p \in 1 .. end[j] : \E i \in 1 .. j : p \in end[i - 1] + 1 .. end[i]
    <2> HIDE DEF S
    <2>1. j \in S /\ j <= n
      <3>1. j \in Nat /\ j <= n
        OBVIOUS
      <3> QED
        BY <1>3, <3>1
    <2>2. /\ \A i \in 0 .. j : end[i] <= end[j]
          /\ \A p \in 1 .. end[j] : \E i \in 1 .. j : p \in end[i - 1] + 1 .. end[i]
      BY <2>1 DEF S
    <2>3. \A i \in 0 .. n : i <= j => i \in 0 .. j
      OBVIOUS
    <2> QED
      BY <2>2, <2>3
  <1> QED
    BY <1>4

\* A list without one of its elements.
LEMMA OneElementLess ==
    ASSUME NEW seq \in Seq(Formatters), NEW x, NEW q \in 1 .. Len(seq), seq[q] = x,
           \A i, j \in 1 .. Len(seq) : seq[i] = seq[j] => i = j
    PROVE  LET t == WithoutElement(seq, x) IN
           /\ t \in Seq(Formatters) /\ Len(t) = Len(seq) - 1
           /\ \A i \in 1 .. Len(seq) - 1 : t[i] = IF i < q THEN seq[i] ELSE seq[i + 1]
  <1> DEFINE n == Len(seq)
             a == SubSeq(seq, 1, q - 1)
             b == SubSeq(seq, q + 1, n)
  <1>1. n \in Nat /\ q \in Nat /\ q <= n /\ q >= 1 /\ DOMAIN seq = 1 .. n
    BY LenProperties
  <1>2. (CHOOSE j \in DOMAIN seq : seq[j] = x) = q
    BY <1>1
  <1>3. WithoutElement(seq, x) = a \o b
    BY <1>2 DEF WithoutElement
  <1>4. \A i \in 1 .. n : seq[i] \in Formatters
    BY ElementOfSeq
  <1> HIDE DEF n
  <1>5. /\ a \in Seq(Formatters) /\ Len(a) = q - 1
        /\ \A i \in 1 .. q - 1 : a[i] = seq[i]
    <2>1. \A i \in 1 .. q - 1 : seq[i] \in Formatters
      BY <1>1, <1>4
    <2>2. /\ a \in Seq(Formatters) /\ Len(a) = IF 1 <= q - 1 THEN q - 1 - 1 + 1 ELSE 0
          /\ \A i \in 1 .. q - 1 - 1 + 1 : a[i] = seq[1 + i - 1]
      BY <1>1, <2>1, SubSeqProperties
    <2> HIDE DEF a
    <2> QED
      BY <1>1, <2>2
  <1>6. /\ b \in Seq(Formatters) /\ Len(b) = n - q
        /\ \A i \in 1 .. n - q : b[i] = seq[q + i]
    <2>1. \A i \in q + 1 .. n : seq[i] \in Formatters
      BY <1>1, <1>4
    <2>2. /\ b \in Seq(Formatters) /\ Len(b) = IF q + 1 <= n THEN n - (q + 1) + 1 ELSE 0
          /\ \A i \in 1 .. n - (q + 1) + 1 : b[i] = seq[(q + 1) + i - 1]
      BY <1>1, <2>1, SubSeqProperties
    <2> HIDE DEF b
    <2>3. (IF q + 1 <= n THEN n - (q + 1) + 1 ELSE 0) = n - q /\ n - (q + 1) + 1 = n - q
      BY <1>1
    <2>4. \A i \in 1 .. n - q : (q + 1) + i - 1 = q + i
      BY <1>1
    <2> QED
      BY <2>2, <2>3, <2>4
  <1>7. /\ a \o b \in Seq(Formatters) /\ Len(a \o b) = (q - 1) + (n - q)
        /\ \A i \in 1 .. (q - 1) + (n - q) : (a \o b)[i] = IF i <= q - 1 THEN a[i] ELSE b[i - (q - 1)]
    <2> HIDE DEF a, b
    <2>1. /\ a \o b \in Seq(Formatters) /\ Len(a \o b) = Len(a) + Len(b)
          /\ \A i \in 1 .. Len(a) + Len(b) : (a \o b)[i] = IF i <= Len(a) THEN a[i] ELSE b[i - Len(a)]
      <3>1. a \in Seq(Formatters) /\ b \in Seq(Formatters)
        BY <1>5, <1>6
      <3> QED
        BY <3>1, ConcatProperties, SMTT(30)
    <2> QED
      BY <1>5, <1>6, <2>1
  <1>8. (q - 1) + (n - q) = n - 1
    BY <1>1
  <1> HIDE DEF a, b
  <1>9. \A i \in 1 .. n - 1 : (a \o b)[i] = IF i < q THEN seq[i] ELSE seq[i + 1]
    <2>1. ASSUME NEW i \in 1 .. n - 1, i < q PROVE (a \o b)[i] = seq[i]
      <3>1. i <= q - 1 /\ i \in 1 .. q - 1
        BY <1>1, <2>1
      <3> QED
        BY <1>5, <1>7, <1>8, <3>1
    <2>2. ASSUME NEW i \in 1 .. n - 1, ~ (i < q) PROVE (a \o b)[i] = seq[i + 1]
      <3>1. ~ (i <= q - 1) /\ i - (q - 1) \in 1 .. n - q /\ q + (i - (q - 1)) = i + 1
        BY <1>1, <2>2
      <3> QED
        BY <1>6, <1>7, <1>8, <3>1
    <2> QED
      BY <2>1, <2>2
  <1> QED
    BY <1>3, <1>7, <1>8, <1>9 DEF n

\* ListsInOrder, for any list of formatters.
EndsOf(end, slice, l, list) ==
    /\ end \in [0 .. Len(list) -> 0 .. slice.len]
    /\ end[0] = 0 /\ end[Len(list)] = slice.len
    /\ \A i \in 1 .. Len(list) :
          /\ end[i] = end[i - 1] + Turns(list[i], l)
          /\ \A p \in end[i - 1] + 1 .. end[i] : slice.cells[p] = list[i]

\* Register adds a block at the end.
LEMMA BlockAdded ==
    ASSUME NEW f \in Formatters, NEW l \in Languages, Proper(byLanguage[l]),
           NEW list \in Seq(Formatters), NEW end, EndsOf(end, byLanguage[l], l, list)
    PROVE  \E e : EndsOf(e, WithAppended(f, l), l, Append(list, f))
  <1> DEFINE old == byLanguage[l]
             t == WithAppended(f, l)
             k == Turns(f, l)
             n == Len(list)
             new == Append(list, f)
             e == [i \in 0 .. n + 1 |-> IF i = n + 1 THEN old.len + k ELSE end[i]]
  <1>1. /\ n \in Nat /\ k \in Nat /\ old.len \in Nat
        /\ Len(new) = n + 1 /\ new[n + 1] = f /\ \A i \in 1 .. n : new[i] = list[i]
    BY TurnsAreFinite, LenProperties, AppendProperties DEF Proper, Slice
  <1>2. /\ t.len = old.len + k
        /\ \A p \in 1 .. old.len : t.cells[p] = old.cells[p]
        /\ \A p \in old.len + 1 .. t.len : t.cells[p] = f
    BY AppendedSlice
  <1>3. /\ end \in [0 .. n -> 0 .. old.len] /\ end[0] = 0 /\ end[n] = old.len
        /\ \A i \in 1 .. n : /\ end[i] = end[i - 1] + Turns(list[i], l)
                             /\ \A p \in end[i - 1] + 1 .. end[i] : old.cells[p] = list[i]
    BY DEF EndsOf
  <1> HIDE DEF old, t, k, n, new
  <1>4. e \in [0 .. n + 1 -> 0 .. t.len]
    <2>1. \A i \in 0 .. n : end[i] \in 0 .. t.len
      BY <1>1, <1>2, <1>3
    <2>2. \A i \in 0 .. n + 1 : i = n + 1 \/ i \in 0 .. n
      BY <1>1
    <2>3. old.len + k \in 0 .. t.len
      BY <1>1, <1>2
    <2> QED
      BY <2>1, <2>2, <2>3
  <1>5. e[0] = 0 /\ e[n + 1] = t.len /\ \A i \in 0 .. n : e[i] = end[i]
    BY <1>1, <1>2, <1>3
  <1> HIDE DEF e
  <1>6. ASSUME NEW i \in 1 .. n + 1
        PROVE  /\ e[i] = e[i - 1] + Turns(new[i], l)
               /\ \A p \in e[i - 1] + 1 .. e[i] : t.cells[p] = new[i]
    <2>1. CASE i = n + 1
      <3>1. e[i] = old.len + k /\ e[i - 1] = old.len /\ new[i] = f
        <4>1. i - 1 = n /\ n \in 0 .. n
          BY <1>1, <2>1
        <4> QED
          BY <1>1, <1>2, <1>3, <1>5, <2>1, <4>1
      <3> QED
        BY <1>2, <3>1 DEF k
    <2>2. CASE i \in 1 .. n
      <3>1. i \in 0 .. n /\ i - 1 \in 0 .. n
        BY <1>1, <2>2
      <3>2. e[i] = end[i] /\ e[i - 1] = end[i - 1] /\ new[i] = list[i]
        BY <1>1, <1>5, <2>2, <3>1
      <3>3. end[i - 1] \in Nat /\ end[i] \in 0 .. old.len
        BY <1>1, <1>3, <3>1
      <3>4. \A p \in end[i - 1] + 1 .. end[i] : p \in 1 .. old.len
        BY <1>1, <3>3
      <3> QED
        BY <1>2, <1>3, <2>2, <3>2, <3>4
    <2> QED
      BY <1>1, <2>1, <2>2
  <1>7. EndsOf(e, t, l, new)
    BY <1>1, <1>4, <1>5, <1>6 DEF EndsOf
  <1> QED
    BY <1>7 DEF t, new

\* Remove takes a block away.
LEMMA BlockRemoved ==
    ASSUME NEW f \in Formatters, NEW l \in Languages, Proper(byLanguage[l]),
           NEW list \in Seq(Formatters), NEW end, EndsOf(end, byLanguage[l], l, list),
           NEW q \in 1 .. Len(list), list[q] = f,
           \A i \in 1 .. Len(list) : i # q => NameOf[list[i]] # NameOf[f],
           NEW new, Len(new) = Len(list) - 1,
           \A i \in 1 .. Len(list) - 1 : new[i] = IF i < q THEN list[i] ELSE list[i + 1]
    PROVE  \E e : EndsOf(e, Without(f, l), l, new)
  <1> DEFINE old == byLanguage[l]
             t == Without(f, l)
             k == Turns(f, l)
             n == Len(list)
             e == [i \in 0 .. n - 1 |-> IF i < q THEN end[i] ELSE end[i + 1] - k]
  <1>1. /\ n \in Nat /\ k \in Nat /\ old.len \in Nat
        /\ q \in Nat /\ 1 <= q /\ q <= n
        /\ \A i \in 1 .. n : list[i] \in Formatters
    BY TurnsAreFinite, LenProperties, ElementOfSeq DEF Proper, Slice
  <1>2. /\ end \in [0 .. n -> 0 .. old.len] /\ end[0] = 0 /\ end[n] = old.len
        /\ \A i \in 1 .. n : /\ end[i] = end[i - 1] + Turns(list[i], l)
                             /\ \A p \in end[i - 1] + 1 .. end[i] : old.cells[p] = list[i]
    BY DEF EndsOf
  <1>3. /\ \A i \in 1 .. n : i # q => NameOf[list[i]] # NameOf[f]
        /\ Len(new) = n - 1
        /\ \A i \in 1 .. n - 1 : new[i] = IF i < q THEN list[i] ELSE list[i + 1]
    OBVIOUS
  <1>4. end \in [0 .. n -> Nat] /\ \A i \in 1 .. n : end[i - 1] <= end[i]
    <2> HIDE DEF n, old
    <2>1. end \in [0 .. n -> Nat]
      BY <1>1, <1>2
    <2>2. ASSUME NEW i \in 1 .. n PROVE end[i - 1] <= end[i]
      <3>1. Turns(list[i], l) \in Nat
        BY <1>1, TurnsAreFinite
      <3>2. i \in 0 .. n /\ i - 1 \in 0 .. n
        BY <1>1
      <3>3. end[i - 1] \in Nat /\ end[i] = end[i - 1] + Turns(list[i], l)
        BY <1>2, <2>1, <3>2
      <3> QED
        BY <3>1, <3>3
    <2> QED
      BY <2>1, <2>2
  <1>5. /\ \A i, j \in 0 .. n : i <= j => end[i] <= end[j]
        /\ \A j \in 0 .. n : \A p \in 1 .. end[j] : \E i \in 1 .. j : p \in end[i - 1] + 1 .. end[i]
    <2> HIDE DEF n, old
    <2>1. n \in Nat /\ end[0] = 0
      BY <1>1, <1>2
    <2>2. end \in [0 .. n -> Nat] /\ \A i \in 1 .. n : end[i - 1] <= end[i]
      BY <1>4
    <2> QED
      BY <2>1, <2>2, BlocksRise
  <1>6. /\ q \in 0 .. n /\ q - 1 \in 0 .. n /\ n \in 0 .. n
        /\ end[q - 1] \in Nat /\ end[q] \in Nat /\ end[q] = end[q - 1] + k /\ end[q] <= old.len
    <2>1. q \in 0 .. n /\ q - 1 \in 0 .. n /\ n \in 0 .. n /\ q \in 1 .. n
      <3> HIDE DEF n
      <3> QED
        BY <1>1
    <2>2. end[q] = end[q - 1] + k
      BY <1>2, <2>1
    <2> HIDE DEF n, old, k
    <2> QED
      BY <1>1, <1>2, <1>4, <2>1, <2>2
  <1>7. /\ t.len = old.len - k
        /\ \A p \in 1 .. end[q - 1] : t.cells[p] = old.cells[p]
        /\ \A p \in end[q - 1] + 1 .. t.len : t.cells[p] = old.cells[p + k]
    <2>1. end[q - 1] \in Nat /\ end[q - 1] + k <= old.len
      BY <1>6
    <2>2. ASSUME NEW p \in 1 .. end[q - 1] PROVE NameOf[old.cells[p]] # NameOf[f]
      <3>1. PICK i \in 1 .. q - 1 : p \in end[i - 1] + 1 .. end[i]
        BY <1>5, <1>6
      <3>2. i \in 1 .. n /\ i # q
        <4> HIDE DEF n
        <4> QED
          BY <1>1
      <3> QED
        BY <1>2, <1>3, <3>1, <3>2
    <2>3. \A p \in end[q - 1] + 1 .. end[q - 1] + k : old.cells[p] = f
      <3>1. q \in 1 .. n
        OBVIOUS
      <3> QED
        BY <1>2, <1>6, <3>1
    <2> DEFINE b == end[q - 1]
    <2>4. /\ b \in Nat /\ b + Turns(f, l) <= byLanguage[l].len
          /\ \A p \in 1 .. b : NameOf[byLanguage[l].cells[p]] # NameOf[f]
          /\ \A p \in b + 1 .. b + Turns(f, l) : byLanguage[l].cells[p] = f
      BY <2>1, <2>2, <2>3
    <2> HIDE DEF b
    <2>5. /\ t.len = old.len - Turns(f, l)
          /\ \A p \in 1 .. b : t.cells[p] = old.cells[p]
          /\ \A p \in b + 1 .. t.len : t.cells[p] = old.cells[p + Turns(f, l)]
      BY <2>4, RemovedBlock
    <2> QED
      BY <2>5 DEF b
  <1> HIDE DEF old, t, k, n
  <1>8. /\ \A i \in 0 .. n - 1 : i < q => i \in 0 .. n /\ end[i] \in Nat /\ end[i] <= end[q - 1]
        /\ \A i \in 0 .. n - 1 : ~ (i < q) => i + 1 \in 0 .. n /\ end[i + 1] \in Nat
                                              /\ end[q] <= end[i + 1] /\ end[i + 1] <= old.len
    <2>1. ASSUME NEW i \in 0 .. n - 1, i < q
          PROVE  i \in 0 .. n /\ end[i] \in Nat /\ end[i] <= end[q - 1]
      <3>1. i \in 0 .. n /\ i <= q - 1
        BY <1>1, <2>1
      <3> QED
        BY <1>4, <1>5, <1>6, <3>1
    <2>2. ASSUME NEW i \in 0 .. n - 1, ~ (i < q)
          PROVE  i + 1 \in 0 .. n /\ end[i + 1] \in Nat /\ end[q] <= end[i + 1] /\ end[i + 1] <= old.len
      <3>1. i + 1 \in 0 .. n /\ q <= i + 1 /\ i + 1 <= n
        BY <1>1, <2>2
      <3> QED
        BY <1>2, <1>4, <1>5, <1>6, <3>1
    <2> QED
      BY <2>1, <2>2
  <1>9. e \in [0 .. n - 1 -> 0 .. t.len]
    <2>1. ASSUME NEW i \in 0 .. n - 1, i < q PROVE end[i] \in 0 .. t.len
      <3>1. end[i] \in Nat /\ end[i] <= end[q - 1]
        BY <1>8, <2>1
      <3>2. end[q - 1] \in Nat /\ t.len \in Int /\ end[q - 1] <= t.len
        BY <1>1, <1>6, <1>7
      <3> QED
        BY <3>1, <3>2
    <2>2. ASSUME NEW i \in 0 .. n - 1, ~ (i < q) PROVE end[i + 1] - k \in 0 .. t.len
      <3>1. end[i + 1] \in Nat /\ end[q] <= end[i + 1] /\ end[i + 1] <= old.len
        BY <1>8, <2>2
      <3>2. k \in Nat /\ end[q] \in Nat /\ k <= end[q] /\ old.len \in Nat /\ t.len = old.len - k
        BY <1>1, <1>6, <1>7
      <3> QED
        BY <3>1, <3>2, SMTT(30)
    <2> QED
      BY <2>1, <2>2
  <1>10. e[0] = 0 /\ e[n - 1] = t.len
    <2>1. 0 \in 0 .. n - 1 /\ n - 1 \in 0 .. n - 1 /\ 0 < q /\ (n - 1) + 1 = n
      BY <1>1
    <2>2. e[0] = 0
      BY <1>2, <2>1
    <2>3. CASE n - 1 < q
      <3>1. n = q /\ e[n - 1] = end[n - 1]
        BY <1>1, <2>1, <2>3
      <3> QED
        BY <1>1, <1>2, <1>6, <1>7, <2>2, <3>1
    <2>4. CASE ~ (n - 1 < q)
      <3>1. e[n - 1] = end[n] - k
        BY <2>1, <2>4
      <3> QED
        BY <1>2, <1>7, <2>2, <3>1
    <2> QED
      BY <2>3, <2>4
  <1>11. ASSUME NEW i \in 1 .. n - 1
         PROVE  /\ e[i] = e[i - 1] + Turns(new[i], l)
                /\ \A p \in e[i - 1] + 1 .. e[i] : t.cells[p] = new[i]
    <2>0. i \in 0 .. n - 1 /\ i - 1 \in 0 .. n - 1 /\ i \in 1 .. n /\ i + 1 \in 1 .. n /\ (i + 1) - 1 = i
          /\ (i - 1) + 1 = i
      BY <1>1
    <2>1. CASE i < q
      <3>1. e[i] = end[i] /\ e[i - 1] = end[i - 1] /\ new[i] = list[i]
        <4>1. i - 1 < q
          BY <1>1, <2>0, <2>1
        <4> QED
          BY <1>3, <2>0, <2>1, <4>1
      <3>2. end[i] \in Nat /\ end[i - 1] \in Nat /\ end[i] <= end[q - 1]
        <4>1. i - 1 < q
          BY <1>1, <2>0, <2>1
        <4> QED
          BY <1>8, <2>0, <2>1, <4>1
      <3>3. \A p \in end[i - 1] + 1 .. end[i] : p \in 1 .. end[q - 1]
        <4> DEFINE a == end[i - 1]
                   b == end[i]
                   c == end[q - 1]
        <4>1. a \in Nat /\ b \in Nat /\ c \in Nat /\ b <= c
          BY <1>6, <3>2
        <4> HIDE DEF a, b, c
        <4>2. \A p \in a + 1 .. b : p \in 1 .. c
          BY <4>1
        <4> QED
          BY <4>2 DEF a, b, c
      <3>4. /\ end[i] = end[i - 1] + Turns(list[i], l)
            /\ \A p \in end[i - 1] + 1 .. end[i] : old.cells[p] = list[i]
        BY <1>2, <2>0
      <3>5. \A p \in end[i - 1] + 1 .. end[i] : t.cells[p] = list[i]
        BY <1>7, <3>3, <3>4
      <3> QED
        BY <3>1, <3>4, <3>5
    <2>2. CASE ~ (i < q)
      <3>1. /\ e[i] = end[i + 1] - k /\ new[i] = list[i + 1]
            /\ e[i - 1] = end[i] - k
        <4>1. e[i] = end[i + 1] - k /\ new[i] = list[i + 1]
          BY <1>3, <2>0, <2>2
        <4>2. CASE i - 1 < q
          <5>1. i = q
            BY <1>1, <2>0, <2>2, <4>2
          <5>2. e[i - 1] = end[i - 1]
            BY <2>0, <4>2
          <5> QED
            BY <1>1, <1>6, <4>1, <5>1, <5>2
        <4>3. CASE ~ (i - 1 < q)
          <5>1. e[i - 1] = end[(i - 1) + 1] - k
            BY <2>0, <4>3
          <5> QED
            BY <2>0, <4>1, <5>1
        <4> QED
          BY <4>2, <4>3
      <3>2. end[i + 1] = end[i] + Turns(list[i + 1], l)
            /\ \A p \in end[i] + 1 .. end[i + 1] : old.cells[p] = list[i + 1]
        BY <1>2, <2>0
      <3>3. end[i + 1] \in Nat /\ end[i] \in Nat /\ end[q] <= end[i] /\ end[i + 1] <= old.len
            /\ Turns(list[i + 1], l) \in Nat
        <4>1. i \in 0 .. n /\ q <= i
          BY <1>1, <2>0, <2>2
        <4> QED
          BY <1>1, <1>4, <1>5, <1>6, <1>8, <2>0, <2>2, <4>1, TurnsAreFinite
      <3>4. ASSUME NEW p \in e[i - 1] + 1 .. e[i] PROVE t.cells[p] = list[i + 1]
        <4>1. p \in end[q - 1] + 1 .. t.len /\ p + k \in end[i] + 1 .. end[i + 1]
          <5>1. p \in (end[i] - k) + 1 .. end[i + 1] - k
            BY <3>1
          <5>2. /\ k \in Nat /\ end[i] \in Nat /\ end[i + 1] \in Nat /\ end[q - 1] \in Nat
                /\ old.len \in Nat /\ end[q - 1] + k <= end[i] /\ end[i + 1] <= old.len
                /\ t.len = old.len - k
            <6>1. end[q] = end[q - 1] + k /\ end[q] <= end[i]
              BY <1>6, <3>3
            <6> QED
              BY <1>1, <1>6, <1>7, <3>3, <6>1
          <5> DEFINE a == end[i]
                     b == end[i + 1]
                     c == end[q - 1]
                     m == old.len
          <5> HIDE DEF a, b, c, m
          <5>3. /\ p \in (a - k) + 1 .. b - k
                /\ k \in Nat /\ a \in Nat /\ b \in Nat /\ c \in Nat /\ m \in Nat
                /\ c + k <= a /\ b <= m /\ t.len = m - k
            BY <5>1, <5>2 DEF a, b, c, m
          <5>4. p \in c + 1 .. m - k /\ p + k \in a + 1 .. b
            BY <5>3
          <5> QED
            BY <5>3, <5>4 DEF a, b, c
        <4> QED
          BY <1>7, <3>2, <4>1
      <3>5. e[i] = e[i - 1] + Turns(new[i], l)
        BY <1>1, <3>1, <3>2, <3>3
      <3> QED
        BY <3>1, <3>4, <3>5
    <2> QED
      BY <2>1, <2>2
  <1> HIDE DEF e
  <1>12. EndsOf(e, t, l, new)
    BY <1>3, <1>9, <1>10, <1>11 DEF EndsOf
  <1> QED
    BY <1>12 DEF t

\* What has to hold of a slice for its language is that it ends where the blocks do.
LEMMA EndsInOrder ==
    ASSUME NEW slice, NEW l
    PROVE  ListsInOrder(slice, l) <=> \E end : EndsOf(end, slice, l, order)
  BY DEF ListsInOrder, EndsOf

\* An empty index lists the formatters of an empty registry.
LEMMA OrderInit == Init => OrderInv
  <1> SUFFICES ASSUME Init PROVE OrderInv
    OBVIOUS
  <1>1. order \in Seq(Formatters) /\ Len(order) = 0 /\ 1 .. Len(order) = {}
    BY EmptySeq DEF Init
  <1>2. \A l \in Languages : byLanguage[l].len = 0
    BY DEF Init, EmptySlice
  <1>3. ASSUME NEW l \in Languages PROVE ListsInOrder(byLanguage[l], l)
    <2> DEFINE end == [i \in 0 .. 0 |-> 0]
    <2>1. EndsOf(end, byLanguage[l], l, order)
      BY <1>1, <1>2 DEF EndsOf
    <2> QED
      BY <2>1, EndsInOrder
  <1>4. {formatters[n] : n \in Names} \ {None} = {}
    BY DEF Init
  <1>5. {order[i] : i \in 1 .. Len(order)} = {}
    BY <1>1
  <1> QED
    BY <1>1, <1>3, <1>4, <1>5 DEF OrderInv, IndexInOrder

\* Every step keeps the order: Register adds a block to the index of each language, Remove takes
\* it away.
LEMMA OrderStep == IInv /\ SlicesInv /\ OrderInv /\ [Next]_vars => OrderInv'
  <1> SUFFICES ASSUME IInv, SlicesInv, OrderInv, [Next]_vars PROVE OrderInv'
    OBVIOUS
  <1> DEFINE n == Len(order)
             f == writer.f
  <1>1. /\ order \in Seq(Formatters) /\ n \in Nat
        /\ \A i \in 1 .. n : order[i] \in Formatters
        /\ \A i, j \in 1 .. n : order[i] = order[j] => i = j
        /\ \A l \in Languages : ListsInOrder(byLanguage[l], l)
        /\ {formatters[m] : m \in Names} \ {None} = {order[i] : i \in 1 .. n}
        /\ \A i \in 1 .. n : formatters[NameOf[order[i]]] = order[i]
    BY LenProperties, ElementOfSeq DEF OrderInv, IndexInOrder
  <1>2. \A l \in Languages : Proper(byLanguage[l])
    BY DEF SlicesInv, Proper
  <1>3. CASE UNCHANGED <<formatters, byLanguage, order>>
    <2>1. \A l \in Languages : ListsInOrder(byLanguage[l], l)'
      BY <1>1, <1>3 DEF ListsInOrder
    <2>2. IndexInOrder'
      <3>1. formatters' = formatters /\ byLanguage' = byLanguage /\ order' = order
        BY <1>3
      <3> QED
        <4>1. {formatters'[m] : m \in Names} = {formatters[m] : m \in Names}
          BY <3>1
        <4>2. {order'[i] : i \in 1 .. Len(order')} = {order[i] : i \in 1 .. Len(order)}
          BY <3>1
        <4>3. \A i \in 1 .. Len(order') : formatters'[NameOf[order'[i]]] = order'[i]
          BY <1>1, <3>1
        <4> QED
          BY <1>1, <2>1, <4>1, <4>2, <4>3 DEF IndexInOrder
    <2> QED
      BY <1>1, <1>3, <2>2 DEF OrderInv
  <1>4. CASE RegisterEnds
    <2>1. /\ f \in Formatters /\ NameOf[f] \in Names
          /\ formatters \in [Names -> Formatters \cup {None}] /\ formatters[NameOf[f]] = None
      BY <1>4 DEF RegisterEnds, IInv, WriterInv, NamesInv
    <2>2. /\ formatters' = [formatters EXCEPT ![NameOf[f]] = f]
          /\ byLanguage' = [l \in Languages |-> [cells |-> WithAppended(f, l).cells,
                                                 len   |-> WithAppended(f, l).len]]
          /\ order' = Append(order, f)
      BY <1>4 DEF RegisterEnds
    <2> HIDE DEF f
    <2>3. /\ order' \in Seq(Formatters) /\ Len(order') = n + 1 /\ order'[n + 1] = f
          /\ \A i \in 1 .. n : order'[i] = order[i]
      BY <1>1, <2>1, <2>2, AppendProperties
    <2>4. \A i \in 1 .. n : order[i] # f /\ NameOf[order[i]] # NameOf[f]
      BY <1>1, <2>1
    <2> HIDE DEF n
    <2>5. \A i \in 1 .. n + 1 : i = n + 1 \/ i \in 1 .. n
      BY <1>1
    <2>6. \A i, j \in 1 .. Len(order') : order'[i] = order'[j] => i = j
      BY <1>1, <2>3, <2>4, <2>5
    <2>7. ASSUME NEW l \in Languages PROVE ListsInOrder(byLanguage[l], l)'
      <3>1. PICK end : EndsOf(end, byLanguage[l], l, order)
        BY <1>1, EndsInOrder
      <3>2. PICK e : EndsOf(e, WithAppended(f, l), l, order')
        BY <1>1, <1>2, <2>1, <2>2, <3>1, BlockAdded
      <3>3. /\ byLanguage'[l].cells = WithAppended(f, l).cells
            /\ byLanguage'[l].len = WithAppended(f, l).len
        BY <2>2
      <3>4. EndsOf(e, byLanguage'[l], l, order')
        BY <3>2, <3>3 DEF EndsOf
      <3> QED
        BY <3>4 DEF EndsOf, ListsInOrder
    <2>8. \A i \in 1 .. n + 1 : formatters'[NameOf[order'[i]]] = order'[i]
      <3>1. \A i \in 1 .. n : NameOf[order[i]] \in Names
        BY <1>1
      <3> QED
        BY <1>1, <2>1, <2>2, <2>3, <2>4, <2>5, <3>1
    <2>9. {formatters'[m] : m \in Names} \ {None} = {order'[i] : i \in 1 .. n + 1}
      <3>1. \A x : x \in {formatters'[m] : m \in Names} \ {None}
                     <=> x = f \/ x \in {formatters[m] : m \in Names} \ {None}
        BY <2>1, <2>2
      <3>2. 1 .. n \subseteq 1 .. n + 1 /\ n + 1 \in 1 .. n + 1
        BY <1>1
      <3>3. \A x : x \in {order'[i] : i \in 1 .. n + 1} <=> x = f \/ x \in {order[i] : i \in 1 .. n}
        BY <2>3, <2>5, <3>2
      <3> QED
        BY <1>1, <3>1, <3>3
    <2> QED
      BY <2>3, <2>6, <2>7, <2>8, <2>9 DEF OrderInv, IndexInOrder
  <1>5. CASE RemoveEnds
    <2>1. /\ f \in Formatters /\ NameOf[f] \in Names
          /\ formatters \in [Names -> Formatters \cup {None}] /\ formatters[NameOf[f]] = f
          /\ \A m \in Names : formatters[m] # None => NameOf[formatters[m]] = m
      BY <1>5 DEF RemoveEnds, IInv, WriterInv, NamesInv
    <2>2. /\ formatters' = [formatters EXCEPT ![NameOf[f]] = None]
          /\ byLanguage' = [l \in Languages |-> Without(f, l)]
          /\ order' = WithoutElement(order, f)
      BY <1>5 DEF RemoveEnds
    <2> HIDE DEF f, n
    <2>3. PICK q \in 1 .. n : order[q] = f
      <3>1. f \in {formatters[m] : m \in Names} \ {None}
        BY <2>1
      <3> QED
        BY <1>1, <3>1
    <2>4. \A i \in 1 .. n : i # q => order[i] # f /\ NameOf[order[i]] # NameOf[f]
      BY <1>1, <2>1, <2>3
    <2>5. /\ order' \in Seq(Formatters) /\ Len(order') = n - 1
          /\ \A i \in 1 .. n - 1 : order'[i] = IF i < q THEN order[i] ELSE order[i + 1]
      BY <1>1, <2>2, <2>3, OneElementLess DEF n
    <2> DEFINE from(i) == IF i < q THEN i ELSE i + 1
    <2>6. /\ \A i \in 1 .. n - 1 : from(i) \in 1 .. n /\ from(i) # q /\ order'[i] = order[from(i)]
          /\ \A i, j \in 1 .. n - 1 : from(i) = from(j) => i = j
      <3>1. \A i \in 1 .. n - 1 : from(i) \in 1 .. n /\ from(i) # q
        BY <1>1, <2>3
      <3>2. \A i, j \in 1 .. n - 1 : from(i) = from(j) => i = j
        BY <1>1, <2>3
      <3> QED
        BY <2>5, <3>1, <3>2
    <2>7. \A j \in 1 .. n : j # q => \E i \in 1 .. n - 1 : j = from(i)
      <3> SUFFICES ASSUME NEW j \in 1 .. n, j # q PROVE \E i \in 1 .. n - 1 : j = from(i)
        OBVIOUS
      <3>1. CASE j < q
        <4>1. j \in 1 .. n - 1 /\ j = from(j)
          BY <1>1, <2>3, <3>1
        <4> QED
          BY <4>1
      <3>2. CASE ~ (j < q)
        <4>1. j - 1 \in 1 .. n - 1 /\ j = from(j - 1)
          BY <1>1, <2>3, <3>2
        <4> QED
          BY <4>1
      <3> QED
        BY <3>1, <3>2
    <2> HIDE DEF from
    <2>8. \A i, j \in 1 .. Len(order') : order'[i] = order'[j] => i = j
      <3> SUFFICES ASSUME NEW i \in 1 .. n - 1, NEW j \in 1 .. n - 1, order'[i] = order'[j]
                   PROVE  i = j
        BY <2>5
      <3>1. /\ from(i) \in 1 .. n /\ from(j) \in 1 .. n
            /\ order[from(i)] = order[from(j)]
        BY <2>6
      <3>2. from(i) = from(j)
        BY <1>1, <3>1
      <3> QED
        BY <2>6, <3>2
    <2>9. ASSUME NEW l \in Languages PROVE ListsInOrder(byLanguage[l], l)'
      <3>1. PICK end : EndsOf(end, byLanguage[l], l, order)
        BY <1>1, EndsInOrder
      <3>2. \E e : EndsOf(e, Without(f, l), l, order')
        <4>1. /\ Proper(byLanguage[l]) /\ order \in Seq(Formatters) /\ f \in Formatters
              /\ q \in 1 .. Len(order) /\ order[q] = f
              /\ \A i \in 1 .. Len(order) : i # q => NameOf[order[i]] # NameOf[f]
          BY <1>1, <1>2, <2>1, <2>3, <2>4 DEF n
        <4>2. /\ Len(order') = Len(order) - 1
              /\ \A i \in 1 .. Len(order) - 1 :
                    order'[i] = IF i < q THEN order[i] ELSE order[i + 1]
          BY <2>5 DEF n
        <4> QED
          BY <3>1, <4>1, <4>2, BlockRemoved, ZenonT(40)
      <3>3. PICK e : EndsOf(e, Without(f, l), l, order')
        BY <3>2
      <3>4. byLanguage'[l] = Without(f, l)
        BY <2>2
      <3> QED
        BY <3>3, <3>4 DEF EndsOf, ListsInOrder
    <2>10. \A i \in 1 .. n - 1 : formatters'[NameOf[order'[i]]] = order'[i]
      <3>1. \A i \in 1 .. n - 1 : /\ order'[i] \in Formatters /\ NameOf[order'[i]] \in Names
                                  /\ NameOf[order'[i]] # NameOf[f]
                                  /\ formatters[NameOf[order'[i]]] = order'[i]
        BY <1>1, <2>4, <2>6
      <3> QED
        <4>1. \A m \in Names : m # NameOf[f] => formatters'[m] = formatters[m]
          BY <2>1, <2>2
        <4> QED
          BY <3>1, <4>1
    <2>11. {formatters'[m] : m \in Names} \ {None} = {order'[i] : i \in 1 .. n - 1}
      <3>1. \A x : x \in {formatters'[m] : m \in Names} \ {None}
                     <=> x # f /\ x \in {formatters[m] : m \in Names} \ {None}
        BY <2>1, <2>2
      <3>2. \A x : x \in {order'[i] : i \in 1 .. n - 1} <=> x # f /\ x \in {order[i] : i \in 1 .. n}
        <4>1. ASSUME NEW i \in 1 .. n - 1
              PROVE  order'[i] # f /\ order'[i] \in {order[j] : j \in 1 .. n}
          BY <2>4, <2>6
        <4>2. ASSUME NEW j \in 1 .. n, order[j] # f
              PROVE  order[j] \in {order'[i] : i \in 1 .. n - 1}
          <5>1. PICK i \in 1 .. n - 1 : j = from(i)
            BY <2>3, <2>7, <4>2
          <5> QED
            BY <2>6, <5>1
        <4> QED
          BY <4>1, <4>2
      <3> QED
        BY <1>1, <3>1, <3>2
    <2> QED
      BY <2>5, <2>8, <2>9, <2>10, <2>11 DEF OrderInv, IndexInOrder
  <1> QED
    BY <1>3, <1>4, <1>5
    DEF Next, RegisterBegins, StoreMetadata, RemoveBegins, ReadFirst, GetByLanguage, readers, history,
        vars

\* For every set of formatters and whatever they declare, also a language twice or in several
\* spellings, and also where two have one name: after any sequence of Register and Remove the
\* index of each language lists what is registered, in the order of registration.
THEOREM IndexInOrderCorrect == Spec => []IndexInOrder
  <1>1. OrderInv => IndexInOrder
    BY DEF OrderInv
  <1> QED
    BY InitInv, NextInv, SlicesInit, SlicesStep, OrderInit, OrderStep, <1>1, PTL DEF Spec

\* The state of the registry and of its readers has its type, and no slice ends beyond its array.
THEOREM TypeCorrect == Spec => []TypeOK
  <1>1. IInv /\ SlicesInv /\ ViewsInv /\ FoundInv /\ OrderInv => TypeOK
    BY DEF IInv, NamesInv, WriterInv, PendingInv, FiledInv, SlicesInv, ViewsInv, FoundInv,
           OrderInv, TypeOK, Cells
  <1> QED
    BY InitInv, NextInv, SlicesInit, SlicesStep, ViewsStep, FoundStep, OrderInit, OrderStep, <1>1,
       PTL DEF Spec
=============================================================================
