---- MODULE QueryCursorProofs ----
(***************************************************************************)
(* What QueryCursor's runs show for results of a few rows, proved for      *)
(* results of every length and every sequence of page sizes.               *)
(***************************************************************************)
EXTENDS QueryCursor, SequenceTheorems, TLAPS

\* Appending a larger row keeps an increasing sequence increasing and bounded.
LEMMA AppendIncreasing ==
  ASSUME NEW s \in Seq(Nat), NEW p \in Nat, Increasing(s),
         \A i \in 1..Len(s) : s[i] <= p
  PROVE  LET t == s \o <<p + 1>>
         IN  /\ Increasing(t)
             /\ \A i \in 1..Len(t) : t[i] <= p + 1
             /\ s = [i \in 1..p |-> i] => t = [i \in 1..(p + 1) |-> i]
<1> DEFINE t == s \o <<p + 1>>
<1>1. /\ t \in Seq(Nat) /\ Len(t) = Len(s) + 1 /\ Len(s) \in Nat
      /\ \A i \in 1..Len(s) : t[i] = s[i] /\ s[i] \in Nat
      /\ t[Len(s) + 1] = p + 1
  <2>1. <<p + 1>> \in Seq(Nat) /\ Len(<<p + 1>>) = 1 /\ <<p + 1>>[1] = p + 1
    OBVIOUS
  <2>2. Len(s) \in Nat
    BY LenProperties
  <2>3. \A i \in 1..Len(s) : s[i] \in Nat
    BY ElementOfSeq
  <2> HIDE DEF t
  <2>4. /\ t \in Seq(Nat) /\ Len(t) = Len(s) + 1
        /\ \A i \in 1..(Len(s) + 1) :
              t[i] = IF i <= Len(s) THEN s[i] ELSE <<p + 1>>[i - Len(s)]
    BY <2>1, ConcatProperties DEF t
  <2> QED BY <2>1, <2>2, <2>3, <2>4
<1> HIDE DEF t
<1> DEFINE L == Len(s)
<1>s. /\ L \in Nat /\ Len(t) = L + 1 /\ t[L + 1] = p + 1
      /\ \A i \in 1..L : t[i] = s[i] /\ s[i] \in Nat /\ s[i] <= p
      /\ \A i, j \in 1..L : i < j => s[i] < s[j]
  BY <1>1 DEF Increasing
<1> HIDE DEF L
<1>2. Increasing(t)
  <2> SUFFICES ASSUME NEW i \in 1..(L + 1), NEW j \in 1..(L + 1), i < j
               PROVE  t[i] < t[j]
    BY <1>s DEF Increasing
  <2>1. i \in 1..L
    BY <1>s
  <2>2. CASE j \in 1..L
    BY <1>s, <2>1, <2>2
  <2>3. CASE j = L + 1
    BY <1>s, <2>1, <2>3
  <2> QED BY <1>s, <2>2, <2>3
<1>3. \A i \in 1..Len(t) : t[i] <= p + 1
  <2> SUFFICES ASSUME NEW i \in 1..(L + 1) PROVE t[i] <= p + 1
    BY <1>s
  <2>1. CASE i \in 1..L
    BY <1>s, <2>1
  <2>2. CASE i = L + 1
    BY <1>s, <2>2
  <2> QED BY <1>s, <2>1, <2>2
<1>4. ASSUME s = [i \in 1..p |-> i]
      PROVE  t = [i \in 1..(p + 1) |-> i]
  <2> DEFINE u == [i \in 1..(p + 1) |-> i]
  <2>1. Len(s) = p /\ \A i \in 1..p : s[i] = i
    BY <1>1, <1>4, LenProperties
  <2>2. t \in [1..(p + 1) -> Nat]
    BY <1>1, <2>1, LenProperties
  <2>3. \A i \in 1..(p + 1) : t[i] = u[i]
    BY <1>1, <2>1
  <2> QED BY <2>2, <2>3
<1> QED BY <1>2, <1>3, <1>4 DEF t

\* What precedes the page being filled is increasing and bounded as the whole is.
LEMMA PrefixIncreasing ==
  ASSUME NEW s \in Seq(Nat), NEW r \in Seq(Nat), Increasing(s \o r),
         NEW p \in Nat, \A i \in 1..Len(s \o r) : (s \o r)[i] <= p
  PROVE  Increasing(s) /\ \A i \in 1..Len(s) : s[i] <= p
<1>1. /\ Len(s \o r) = Len(s) + Len(r) /\ Len(s) \in Nat /\ Len(r) \in Nat
      /\ \A i \in 1..Len(s) : (s \o r)[i] = s[i]
  <2>1. Len(s) \in Nat /\ Len(r) \in Nat
    BY LenProperties
  <2>2. /\ Len(s \o r) = Len(s) + Len(r)
        /\ \A i \in 1..(Len(s) + Len(r)) :
              (s \o r)[i] = IF i <= Len(s) THEN s[i] ELSE r[i - Len(s)]
    BY ConcatProperties
  <2> QED BY <2>1, <2>2
<1>2. ASSUME NEW i \in 1..Len(s) PROVE i \in 1..Len(s \o r)
  BY <1>1
<1>3. \A i \in 1..Len(s) : s[i] <= p
  BY <1>1, <1>2
<1>4. ASSUME NEW i \in 1..Len(s), NEW j \in 1..Len(s), i < j PROVE s[i] < s[j]
  <2>1. (s \o r)[i] < (s \o r)[j]
    BY <1>2, <1>4 DEF Increasing
  <2> QED BY <1>1, <2>1
<1> QED BY <1>3, <1>4 DEF Increasing

\* Produced in the states the actions leave and reach: a waiting row only while idle.
LEMMA ProducedShape ==
  ASSUME TypeOK, pending = 0
  PROVE  Produced = delivered \o records
<1>1. Waiting = <<>> /\ delivered \o records \in Seq(Nat)
  BY ConcatProperties DEF Waiting, TypeOK
<1> QED BY <1>1, ConcatEmptySeq DEF Produced

LEMMA ProducedIdle ==
  ASSUME TypeOK, records = <<>>
  PROVE  Produced = delivered \o Waiting
  BY ConcatEmptySeq DEF Produced, TypeOK

----------------------------------------------------------------------------

\* The types hold: sequences of rows stay sequences of rows, the page size stays positive.
LEMMA Typing ==
  ASSUME TypeOK, [Next]_vars, CursorAssumption
  PROVE  TypeOK'
<1>0. Waiting \in Seq(Nat) /\ delivered \o records \in Seq(Nat)
  BY ConcatProperties DEF TypeOK, Waiting
<1>1. CASE \E maxRows \in Requests : BeginFetch(maxRows)
  BY <1>0, <1>1 DEF BeginFetch, TypeOK, CursorAssumption
<1>2. CASE ReadRow
  BY <1>2 DEF ReadRow, TypeOK
<1>3. CASE ReturnShort
  BY <1>0, <1>3 DEF ReturnShort, Return, TypeOK
<1>4. CASE ReturnAhead
  BY <1>0, <1>4 DEF ReturnAhead, Return, TypeOK
<1>5. CASE ReturnExact
  BY <1>0, <1>5 DEF ReturnExact, Return, TypeOK
<1>6. CASE ReadThrows
  BY <1>6 DEF ReadThrows, TypeOK
<1>7. CASE Dispose
  BY <1>7 DEF Dispose, TypeOK
<1>8. CASE UNCHANGED vars
  BY <1>8 DEF vars, TypeOK
<1> QED BY <1>1, <1>2, <1>3, <1>4, <1>5, <1>6, <1>7, <1>8 DEF Next

\* How the invariant's last part follows from what a step does to Produced.
LEMMA KeepsProduced ==
  ASSUME IInv, Produced' = Produced, pos' = pos, failed' = failed
  PROVE  /\ \A i \in 1..Len(Produced') : Produced'[i] <= pos'
         /\ InOrder' /\ NothingLost'
  BY DEF IInv, InOrder, NothingLost

LEMMA GrowsProduced ==
  ASSUME IInv, Produced' = Produced \o <<pos + 1>>, pos' = pos + 1, failed' = failed
  PROVE  /\ \A i \in 1..Len(Produced') : Produced'[i] <= pos'
         /\ InOrder' /\ NothingLost'
<1>1. Produced \in Seq(Nat)
  BY ConcatProperties DEF Produced, Waiting, IInv, TypeOK
<1>2. /\ Increasing(Produced') /\ \A i \in 1..Len(Produced') : Produced'[i] <= pos + 1
      /\ Produced = [i \in 1..pos |-> i] => Produced' = [i \in 1..(pos + 1) |-> i]
  BY <1>1, AppendIncreasing DEF IInv, TypeOK, InOrder
<1> QED BY <1>2 DEF IInv, InOrder, NothingLost

\* IInv is inductive.
LEMMA Inductive ==
  ASSUME IInv, [Next]_vars, CursorAssumption
  PROVE  IInv'
<1> DEFINE Tail3 == /\ \A i \in 1..Len(Produced) : Produced[i] <= pos
                    /\ InOrder /\ NothingLost
<1>0. TypeOK'
  BY Typing DEF IInv
<1>t. TypeOK
  BY DEF IInv
<1>1. ASSUME NEW maxRows \in Requests, BeginFetch(maxRows) PROVE IInv'
  <2>1. pending' = 0 /\ records' = Waiting /\ delivered' = delivered /\ records = <<>>
    BY <1>1 DEF BeginFetch, IInv
  <2>2. Produced' = delivered \o Waiting
    BY <1>0, <2>1, ProducedShape DEF ProducedShape, Produced, Waiting, TypeOK
  <2>3. Produced' = Produced
    BY <1>t, <2>1, <2>2, ProducedIdle
  <2>4. Tail3'
    BY <1>1, <2>3, KeepsProduced DEF BeginFetch
  <2>5. exhausted' => pos' = total' /\ records' = <<>>
    BY <1>1 DEF BeginFetch, IInv, Waiting
  <2> QED BY <1>0, <1>1, <2>1, <2>4, <2>5 DEF BeginFetch, IInv
<1>2. CASE ReadRow
  <2>1. pending = 0 /\ pending' = 0
    BY <1>2 DEF ReadRow, IInv
  <2>2. Produced = delivered \o records
    BY <1>t, <2>1, ProducedShape
  <2>3. Produced' = delivered \o Append(records, pos + 1)
    BY <1>0, <1>2, <2>1, ConcatProperties, ConcatEmptySeq DEF ReadRow, Produced, Waiting, TypeOK
  <2>4. Append(records, pos + 1) = records \o <<pos + 1>>
    BY <1>t DEF TypeOK
  <2>5. Produced' = Produced \o <<pos + 1>>
    <3>1. <<pos + 1>> \in Seq(Nat) /\ records \in Seq(Nat) /\ delivered \in Seq(Nat)
      BY <1>t DEF TypeOK
    <3>2. (delivered \o records) \o <<pos + 1>> = delivered \o (records \o <<pos + 1>>)
      BY <3>1, ConcatAssociative
    <3> QED BY <2>2, <2>3, <2>4, <3>2
  <2>6. Tail3'
    BY <1>2, <2>5, GrowsProduced DEF ReadRow
  <2> QED BY <1>0, <1>2, <2>1, <2>6 DEF ReadRow, IInv, TypeOK
<1>3. ASSUME ReturnShort \/ ReturnExact PROVE IInv'
  <2>1. /\ pending = 0 /\ pending' = 0 /\ records' = <<>> /\ delivered' = delivered \o records
        /\ pos' = pos /\ pos = total /\ failed' = failed
    BY <1>3 DEF ReturnShort, ReturnExact, Return, IInv
  <2>2. Produced' = Produced
    BY <1>t, <1>0, <2>1, ConcatProperties, ConcatEmptySeq DEF Produced, Waiting, TypeOK
  <2>3. Tail3'
    BY <2>1, <2>2, KeepsProduced
  <2> QED BY <1>0, <1>3, <2>1, <2>3 DEF ReturnShort, ReturnExact, Return, IInv
<1>4. CASE ReturnAhead
  <2>1. /\ pending = 0 /\ pending' = pos + 1 /\ records' = <<>>
        /\ delivered' = delivered \o records /\ pos' = pos + 1 /\ failed' = failed
    BY <1>4 DEF ReturnAhead, Return, IInv
  <2>2. Produced = delivered \o records
    BY <1>t, <2>1, ProducedShape
  <2>3. Produced' = (delivered \o records) \o <<pos + 1>>
    <3>1. delivered \o records \in Seq(Nat)
      BY <1>t, ConcatProperties DEF TypeOK
    <3>2. (delivered \o records) \o <<>> = delivered \o records
      BY <3>1, ConcatEmptySeq
    <3>3. Waiting' = <<pos + 1>>
      BY <1>t, <2>1 DEF Waiting, TypeOK
    <3> QED BY <2>1, <3>2, <3>3 DEF Produced
  <2>4. Tail3'
    BY <2>1, <2>2, <2>3, GrowsProduced
  <2> QED BY <1>0, <1>4, <2>1, <2>4 DEF ReturnAhead, Return, IInv, TypeOK
<1>5. CASE ReadThrows
  <2>1. /\ pending = 0 /\ pending' = 0 /\ records' = <<>>
        /\ delivered' = delivered /\ pos' \in {pos, pos + 1} /\ pos' <= total /\ failed'
    BY <1>5 DEF ReadThrows, IInv
  <2>2. Produced = delivered \o records
    BY <1>t, <2>1, ProducedShape
  <2>3. Produced' = delivered
    BY <1>t, <2>1, ConcatEmptySeq DEF Produced, Waiting, TypeOK
  <2>4. Increasing(delivered) /\ \A i \in 1..Len(delivered) : delivered[i] <= pos
    BY <1>t, <2>2, PrefixIncreasing DEF IInv, InOrder, TypeOK
  <2>5. \A i \in 1..Len(delivered) : delivered[i] <= pos'
    BY <1>t, <2>1, <2>4 DEF TypeOK
  <2>6. Tail3'
    BY <2>1, <2>3, <2>4, <2>5 DEF InOrder, NothingLost
  <2> QED BY <1>0, <1>5, <2>1, <2>6 DEF ReadThrows, IInv
<1>6. CASE Dispose
  BY <1>0, <1>6, KeepsProduced DEF Dispose, IInv, Produced, Waiting
<1>7. CASE UNCHANGED vars
  BY <1>0, <1>7, KeepsProduced DEF vars, IInv, Produced, Waiting
<1> QED BY <1>1, <1>2, <1>3, <1>4, <1>5, <1>6, <1>7 DEF Next

LEMMA InitIInv ==
  ASSUME Init, CursorAssumption
  PROVE  IInv
<1>1. TypeOK
  <2>1. total \in Nat /\ exhausted \in BOOLEAN
    BY DEF Init, CursorAssumption
  <2>2. <<>> \in Seq(Nat)
    OBVIOUS
  <2>3. /\ pos = 0 /\ pending = 0 /\ phase = "idle" /\ limit = 1 /\ records = <<>>
        /\ disposed = FALSE /\ delivered = <<>> /\ more = "unasked" /\ failed = FALSE
    BY DEF Init
  <2>4. disposed \in BOOLEAN /\ failed \in BOOLEAN
    BY <2>3, Zenon
  <2>5. /\ pos \in Nat /\ pending \in Nat /\ phase \in {"idle", "fetching"}
        /\ limit \in Nat \ {0} /\ more \in {"unasked", "yes", "no"}
        /\ records \in Seq(Nat) /\ delivered \in Seq(Nat)
    BY <2>2, <2>3
  <2> QED BY <2>1, <2>4, <2>5, Zenon DEF TypeOK
<1>2. Produced = <<>> /\ Len(Produced) = 0
  BY <1>1, ConcatEmptySeq DEF Init, Produced, Waiting, TypeOK
<1>3. InOrder
  BY <1>2 DEF InOrder, Increasing
<1>4. NothingLost
  <2>1. [i \in 1..0 |-> i] = <<>>
    OBVIOUS
  <2>2. pos = 0
    BY DEF Init
  <2> QED BY <1>2, <2>1, <2>2 DEF NothingLost
<1>5. /\ pos = 0 /\ records = <<>> /\ pending = 0 /\ more = "unasked"
      /\ exhausted => total = 0
  BY DEF Init
<1>6. pos <= total
  BY <1>1, <1>5 DEF TypeOK
<1> QED BY <1>1, <1>2, <1>3, <1>4, <1>5, <1>6 DEF IInv

\* Every reachable state satisfies the inductive invariant.
THEOREM Invariance == Spec => []IInv
<1>1. Init => IInv
  BY InitIInv, CursorAssumption
<1>2. IInv /\ [Next]_vars => IInv'
  BY Inductive, CursorAssumption
<1> QED BY <1>1, <1>2, PTL DEF Spec

\* The state of a cursor is well typed, for results of any length.
THEOREM TypeCorrect == Spec => []TypeOK
<1>1. IInv => TypeOK
  BY DEF IInv
<1> QED BY <1>1, Invariance, PTL

\* FetchAsync loses, repeats and reorders no row as long as no fetch fails.
THEOREM NothingIsLost == Spec => []NothingLost
<1>1. IInv => NothingLost
  BY DEF IInv
<1> QED BY <1>1, Invariance, PTL

\* Whatever fails, FetchAsync never repeats a row nor returns rows out of order.
THEOREM AlwaysInOrder == Spec => []InOrder
<1>1. IInv => InOrder
  BY DEF IInv
<1> QED BY <1>1, Invariance, PTL

\* How many rows have been delivered, when no fetch is in flight and none failed.
LEMMA DeliveredCount ==
  ASSUME IInv, ~failed, records = <<>>
  PROVE  /\ delivered \o Waiting = [i \in 1..pos |-> i]
         /\ Len(delivered) = IF pending = 0 THEN pos ELSE pos - 1
<1>1. delivered \o Waiting = [i \in 1..pos |-> i]
  BY ProducedIdle DEF IInv, NothingLost
<1>2. /\ delivered \in Seq(Nat) /\ Waiting \in Seq(Nat) /\ pos \in Nat
      /\ Len(Waiting) = IF pending = 0 THEN 0 ELSE 1
  BY DEF IInv, TypeOK, Waiting
<1>3. Len(delivered \o Waiting) = Len(delivered) + Len(Waiting) /\ Len(delivered) \in Nat
  BY <1>2, ConcatProperties, LenProperties
<1>4. Len(delivered \o Waiting) = pos
  <2>1. DOMAIN (delivered \o Waiting) = 1..pos
    BY <1>1
  <2>2. DOMAIN (delivered \o Waiting) = 1..Len(delivered \o Waiting)
    BY <1>2, ConcatProperties, LenProperties
  <2> QED BY <1>2, <1>3, <2>1, <2>2
<1> QED BY <1>1, <1>2, <1>3, <1>4

\* The HasMore flag FetchAsync answers is exact at every page boundary.
THEOREM HasMoreIsExact == Spec => []HasMoreExact
<1>1. IInv => HasMoreExact
  <2> SUFFICES ASSUME IInv, phase = "idle", ~failed, more # "unasked"
               PROVE  more = "yes" <=> Len(delivered) < total
    BY DEF HasMoreExact
  <2>1. Len(delivered) = IF pending = 0 THEN pos ELSE pos - 1
    BY DeliveredCount DEF IInv
  <2>2. pos \in Nat /\ total \in Nat /\ pos <= total /\ more \in {"yes", "no"}
    BY DEF IInv, TypeOK
  <2>3. CASE more = "yes"
    BY <2>1, <2>2, <2>3 DEF IInv
  <2>4. CASE more = "no"
    BY <2>1, <2>2, <2>4 DEF IInv
  <2> QED BY <2>2, <2>3, <2>4
<1> QED BY <1>1, Invariance, PTL

----------------------------------------------------------------------------

\* A page of an intact cursor: the rows that come right after those delivered before.
LEMMA PageIsNext ==
  ASSUME IInv, ~failed, pending = 0
  PROVE  /\ records = [i \in 1..Len(records) |-> Len(delivered) + i]
         /\ Len(delivered \o records) = pos /\ pos = Len(delivered) + Len(records)
         /\ Len(records) \in Nat /\ Len(delivered) \in Nat
<1>1. /\ delivered \o records = [i \in 1..pos |-> i]
      /\ delivered \in Seq(Nat) /\ records \in Seq(Nat) /\ pos \in Nat
  BY ProducedShape DEF IInv, NothingLost, TypeOK
<1>2. /\ Len(delivered \o records) = Len(delivered) + Len(records)
      /\ Len(records) \in Nat /\ Len(delivered) \in Nat
  BY <1>1, ConcatProperties, LenProperties
<1>3. Len(delivered \o records) = pos
  <2>1. DOMAIN (delivered \o records) = 1..pos
    BY <1>1
  <2>2. DOMAIN (delivered \o records) = 1..Len(delivered \o records)
    BY <1>1, ConcatProperties, LenProperties
  <2> QED BY <1>1, <1>2, <2>1, <2>2
<1>4. \A i \in 1..Len(records) : records[i] = Len(delivered) + i
  <2> TAKE i \in 1..Len(records)
  <2>1. Len(delivered) + i \in 1..pos
    BY <1>2, <1>3
  <2>2. (delivered \o records)[Len(delivered) + i] = records[(Len(delivered) + i) - Len(delivered)]
    <3>1. \A n \in 1..(Len(delivered) + Len(records)) :
             (delivered \o records)[n] = IF n <= Len(delivered) THEN delivered[n]
                                         ELSE records[n - Len(delivered)]
      BY <1>1, ConcatProperties
    <3>2. /\ Len(delivered) + i \in 1..(Len(delivered) + Len(records))
          /\ ~(Len(delivered) + i <= Len(delivered))
      BY <1>2
    <3> QED BY <3>1, <3>2
  <2>3. (Len(delivered) + i) - Len(delivered) = i
    BY <1>2
  <2> QED BY <1>1, <2>1, <2>2, <2>3
<1>5. records = [i \in 1..Len(records) |-> Len(delivered) + i]
  <2>1. records \in [1..Len(records) -> Nat]
    BY <1>1, LenProperties
  <2> QED BY <1>4, <2>1
<1> QED BY <1>2, <1>3, <1>5

\* A page returned while no fetch has failed is a Serve of the abstract result.
LEMMA ReturnServes ==
  ASSUME IInv, IInv', ~failed, NEW hasMore \in BOOLEAN, Return(hasMore), pending = 0,
         hasMore => pos < total /\ Len(records) > 0,
         ~hasMore => pos = total
  PROVE  Result!Serve
<1> DEFINE k == Len(records)
<1>1. /\ records = [i \in 1..k |-> Len(delivered) + i]
      /\ Len(delivered \o records) = pos /\ pos = Len(delivered) + k
      /\ k \in Nat /\ Len(delivered) \in Nat
  BY PageIsNext
<1>2. total \in Nat /\ pos \in Nat /\ pos <= total
  BY DEF IInv, TypeOK
<1>3. k \in 0..total
  BY <1>1, <1>2
<1>4. /\ delivered' = delivered \o [i \in 1..k |-> Len(delivered) + i]
      /\ Len(delivered') = pos
  BY <1>1 DEF Return
<1>5. more' = IF pos < total THEN "yes" ELSE "no"
  BY <1>2 DEF Return
<1>6. more' = "yes" => k > 0
  BY DEF Return
<1>7. total' = total /\ failed' = failed
  BY DEF Return
<1> HIDE DEF k
<1> QED BY <1>2, <1>3, <1>4, <1>5, <1>6, <1>7 DEF Result!Serve

\* A page returned after a failure still only extends what was delivered, in order.
LEMMA ReturnServesBroken ==
  ASSUME IInv, IInv', failed, NEW hasMore \in BOOLEAN, Return(hasMore)
  PROVE  Result!ServeBroken
<1>1. delivered \in Seq(Nat) /\ records \in Seq(Nat)
  BY DEF IInv, TypeOK
<1>2. /\ Len(delivered) \in Nat /\ Len(records) \in Nat
      /\ Len(delivered \o records) = Len(delivered) + Len(records)
      /\ \A i \in 1..(Len(delivered) + Len(records)) :
            (delivered \o records)[i] = IF i <= Len(delivered)
                                        THEN delivered[i] ELSE records[i - Len(delivered)]
  BY <1>1, ConcatProperties, LenProperties
<1>3. delivered' = delivered \o records /\ more' \in {"yes", "no"}
      /\ total' = total /\ failed' = failed
  BY DEF Return
<1>4. \A i \in 1..Len(delivered) : delivered'[i] = delivered[i]
  BY <1>2, <1>3
<1>5. Increasing(delivered')
  <2>1. delivered' \in Seq(Nat) /\ Waiting' \in Seq(Nat) /\ Produced' = delivered' \o Waiting'
    BY <1>1, <1>3, ConcatProperties, ConcatEmptySeq DEF IInv, TypeOK, Produced, Waiting, Return
  <2>2. \A i \in 1..Len(Produced') : Produced'[i] <= pos'
    BY DEF IInv
  <2>3. Increasing(Produced') /\ pos' \in Nat
    BY DEF IInv, InOrder, TypeOK
  <2> QED BY <2>1, <2>2, <2>3, PrefixIncreasing
<1> QED BY <1>2, <1>3, <1>4, <1>5 DEF Result!ServeBroken, Result!Increasing, Increasing

\* Every step of the cursor is a step of the abstract result or leaves it unchanged.
LEMMA StepRefines ==
  ASSUME IInv, IInv', [Next]_vars, CursorAssumption
  PROVE  [Result!Next]_(Result!vars)
<1>1. CASE \E maxRows \in Requests : BeginFetch(maxRows)
  BY <1>1 DEF BeginFetch, Result!vars
<1>2. CASE ReadRow
  BY <1>2 DEF ReadRow, Result!vars
<1>3. CASE ReturnShort \/ ReturnExact
  <2>1. Return(FALSE) /\ pending = 0 /\ pos = total
    BY <1>3 DEF ReturnShort, ReturnExact, IInv
  <2> QED BY <2>1, ReturnServes, ReturnServesBroken DEF Result!Next
<1>4. CASE ReturnAhead
  <2>1. Return(TRUE) /\ pending = 0 /\ pos < total /\ Len(records) >= limit
    BY <1>4 DEF ReturnAhead, IInv
  <2>2. limit \in Nat \ {0} /\ Len(records) \in Nat
    BY LenProperties DEF IInv, TypeOK
  <2>3. Len(records) > 0
    BY <2>1, <2>2
  <2> QED BY <2>1, <2>3, ReturnServes, ReturnServesBroken DEF Result!Next
<1>5. CASE ReadThrows
  BY <1>5 DEF ReadThrows, Result!Break, Result!Next
<1>6. CASE Dispose
  BY <1>6 DEF Dispose, Result!vars
<1>7. CASE UNCHANGED vars
  BY <1>7 DEF vars, Result!vars
<1> QED BY <1>1, <1>2, <1>3, <1>4, <1>5, <1>6, <1>7 DEF Next

\* AdoQueryCursor implements the paged result the interface promises, for results of
\* every length and any sequence of page sizes, failures and disposals.
THEOREM Refinement == Spec => ImplementsPagedResult
<1>1. Init => Result!Init
  BY CursorAssumption DEF Init, Result!Init
<1>2. IInv /\ IInv' /\ [Next]_vars => [Result!Next]_(Result!vars)
  BY StepRefines, CursorAssumption
<1> QED BY <1>1, <1>2, Invariance, PTL DEF Spec, ImplementsPagedResult, Result!Spec
----------------------------------------------------------------------------

\* What a page says of its size while it is being filled: it does not exceed the size asked
\* for, and after a page that announced more it has at least the row that was read ahead.
PageFits ==
    phase = "fetching" => /\ Len(records) <= limit
                          /\ more = "yes" => Len(records) > 0

LEMMA Fitting ==
  ASSUME IInv, PageFits, [Next]_vars
  PROVE  PageFits'
<1>0. /\ records \in Seq(Nat) /\ Len(records) \in Nat /\ limit \in Nat \ {0}
      /\ pos \in Nat
  BY LenProperties DEF IInv, TypeOK
<1>1. ASSUME NEW maxRows \in Requests, BeginFetch(maxRows)
      PROVE  PageFits'
  <2>1. /\ limit' = (IF maxRows < 1 THEN 1 ELSE maxRows) /\ maxRows \in Int
        /\ records' = Waiting /\ more' = more /\ phase = "idle"
    BY <1>1, CursorAssumption DEF BeginFetch
  <2>2. limit' \in Nat /\ limit' >= 1
    BY <2>1
  <2>3. pending \in Nat /\ (more = "yes" => pending # 0)
    BY <2>1 DEF IInv, TypeOK
  <2>4. Len(Waiting) = IF pending = 0 THEN 0 ELSE 1
    BY <2>3 DEF Waiting
  <2> QED BY <2>1, <2>2, <2>3, <2>4 DEF PageFits
<1>2. CASE ReadRow
  <2>1. /\ records' = Append(records, pos + 1) /\ limit' = limit
        /\ Len(records) < limit
    BY <1>2 DEF ReadRow
  <2>2. Len(records') = Len(records) + 1
    BY <1>0, <2>1
  <2> QED BY <1>0, <2>1, <2>2 DEF PageFits
<1>3. CASE ReturnShort \/ ReturnAhead \/ ReturnExact \/ ReadThrows
  BY <1>3 DEF PageFits, ReturnShort, ReturnAhead, ReturnExact, Return, ReadThrows
<1>4. CASE Dispose \/ UNCHANGED vars
  BY <1>4 DEF PageFits, Dispose, vars
<1> QED BY <1>1, <1>2, <1>3, <1>4 DEF Next

LEMMA PagesFit == Spec => [](IInv /\ PageFits)
<1>1. Init => PageFits
  BY DEF Init, PageFits
<1>2. IInv /\ PageFits /\ [Next]_vars => PageFits'
  BY Fitting
<1> QED BY <1>1, <1>2, Invariance, PTL DEF Spec

\* The steps that answer a fetch: with a page, which is all that was collected, or an exception.
LEMMA Answers ==
  ASSUME IInv, Next, phase = "fetching", phase' = "idle"
  PROVE  \/ more' = "unasked" /\ failed'
         \/ /\ Len(delivered') = Len(delivered) + Len(records)
            /\ more' = "yes" => Len(records) >= limit
<1>0. /\ delivered \in Seq(Nat) /\ records \in Seq(Nat)
      /\ Len(delivered \o records) = Len(delivered) + Len(records)
  BY ConcatProperties DEF IInv, TypeOK
<1>1. CASE ReturnShort \/ ReturnExact
  BY <1>0, <1>1 DEF ReturnShort, ReturnExact, Return
<1>2. CASE ReturnAhead
  BY <1>0, <1>2 DEF ReturnAhead, Return
<1>3. CASE ReadThrows
  BY <1>3 DEF ReadThrows
<1>4. ASSUME (\E maxRows \in Requests : BeginFetch(maxRows)) \/ ReadRow \/ Dispose
      PROVE  FALSE
  BY <1>4 DEF BeginFetch, ReadRow, Dispose
<1> QED BY <1>1, <1>2, <1>3, <1>4 DEF Next

\* FetchAsync: a page never exceeds the requested size, and one that announces more is full.
THEOREM PagesAreWellSized == Spec => PageWellSized
<1> DEFINE Sized == LET size == Len(delivered') - Len(delivered)
                    IN  size <= limit /\ (more' = "yes" => size = limit /\ size > 0)
<1>1. ASSUME IInv, PageFits, [Next]_vars
      PROVE  [phase = "fetching" /\ more' # "unasked" /\ phase' = "idle" => Sized]_vars
  <2> SUFFICES ASSUME Next, phase = "fetching", more' # "unasked", phase' = "idle"
               PROVE  Sized
    BY <1>1
  <2>1. /\ Len(delivered') = Len(delivered) + Len(records)
        /\ more' = "yes" => Len(records) >= limit
    BY <1>1, Answers
  <2>2. /\ Len(delivered) \in Nat /\ Len(records) \in Nat /\ limit \in Nat \ {0}
        /\ Len(records) <= limit
    BY <1>1, LenProperties DEF IInv, TypeOK, PageFits
  <2> QED BY <2>1, <2>2
<1> QED BY <1>1, PagesFit, PTL DEF Spec, PageWellSized

\* FetchAsync: after a page that announced more the next brings a row, or an exception.
THEOREM PromisesAreKept == Spec => PromiseKept
<1>1. ASSUME IInv, PageFits, [Next]_vars
      PROVE  [phase = "fetching" /\ phase' = "idle" /\ more = "yes" /\ ~failed'
                => Len(delivered') > Len(delivered)]_vars
  <2> SUFFICES ASSUME Next, phase = "fetching", phase' = "idle", more = "yes", ~failed'
               PROVE  Len(delivered') > Len(delivered)
    BY <1>1
  <2>1. Len(delivered') = Len(delivered) + Len(records)
    BY <1>1, Answers
  <2>2. Len(delivered) \in Nat /\ Len(records) \in Nat /\ Len(records) > 0
    BY <1>1, LenProperties DEF IInv, TypeOK, PageFits
  <2> QED BY <2>1, <2>2
<1> QED BY <1>1, PagesFit, PTL DEF Spec, PromiseKept
====
