------------------------ MODULE ContextEngineProofs ------------------------
(***************************************************************************)
(* Proofs about ContextEngine for all windows and sizes.                   *)
(*                                                                         *)
(* What compaction keeps depends on the sizes, but that it loses nothing   *)
(* does not: whatever turn is the first one kept, the summary reaches just *)
(* to the turn before it.                                                  *)
(*                                                                         *)
(* That a prompt fits does: the tokens of the newest turns are a sum, and  *)
(* what is said of it is shown by induction on the number of turns, as a   *)
(* search for the least number of turns of which it is not so.             *)
(***************************************************************************)
EXTENDS ContextEngine, FiniteSetTheorems, WellFoundedInduction, TLAPS

\* Turns whose numbers go on where the summary ends.
Follows(ts, through) == \A k \in DOMAIN ts : ts[k].no = through + k

\* The session that the results of prepare are made from, and leave behind.
Session(sum, ts) ==
  /\ sum \in [through : Nat, size : {0} \cup SummarySizes]
  /\ ts \in Seq(Turn) /\ Len(ts) > 0
  /\ Follows(ts, sum.through)

IInv ==
  /\ window \in Windows
  /\ pc \in {"plan", "step", "answer", "waiting"}
  /\ fixed \in FixedSizes
  /\ refs \in 0 .. MaxRefs
  /\ said \in 1 .. MaxTurns
  /\ Session(summary, turns)
  /\ summary.through + Len(turns) = said
  /\ prompt \in Nat /\ prompt <= Budget
  /\ refusal \in {"no", "limit", "whole", "reply"}
-----------------------------------------------------------------------------
(* The tokens of the newest turns. *)

\* A well-founded relation on numbers has a minimal element in every set.
LEMMA MinimalBy ==
  ASSUME NEW R, IsWellFoundedOn(R, Nat), NEW S \in SUBSET Nat, S # {}
  PROVE  \E m \in S : \A n \in S : ~ (<<n, m>> \in R)
BY WFMin, Zenon

\* A set of numbers that is not empty has a least one: the induction of the
\* lemmas below, which look at the least number that is against them.
LEMMA LeastNumber ==
  ASSUME NEW S \in SUBSET Nat, S # {}
  PROVE  \E m \in S : \A n \in S : m <= n
<1> DEFINE Less == OpToRel(<, Nat)
<1>1. IsWellFoundedOn(Less, Nat)
  BY NatLessThanWellFounded
<1>2. \A i, j \in Nat : <<i, j>> \in Less <=> i < j
  BY DEF OpToRel
<1> HIDE DEF Less
<1>3. PICK m \in S : \A n \in S : ~ (<<n, m>> \in Less)
  BY <1>1, MinimalBy, Zenon
<1>4. \A n \in S : ~ (n < m)
  BY <1>2, <1>3, Zenon
<1> QED
  BY <1>4

\* The function that Newest is defined by.
Sums(f, ts, n) ==
  f = [k \in 0 .. n |-> IF k = 0 THEN 0 ELSE f[k - 1] + ts[Len(ts) + 1 - k].size]

\* Two of them agree where both are defined.
LEMMA SumsAgree ==
  ASSUME NEW ts, NEW m \in Nat, NEW n \in Nat, m <= n,
         NEW f, Sums(f, ts, m), NEW g, Sums(g, ts, n)
  PROVE  \A k \in 0 .. m : f[k] = g[k]
<1> DEFINE Bad == {k \in 0 .. m : f[k] # g[k]}
<1> SUFFICES ASSUME Bad # {} PROVE FALSE
  OBVIOUS
<1>1. PICK k \in Bad : \A j \in Bad : k <= j
  <2>1. Bad \in SUBSET Nat
    OBVIOUS
  <2> HIDE DEF Bad
  <2> QED
    BY <2>1, LeastNumber
<1>2. k \in 0 .. m /\ f[k] # g[k]
  OBVIOUS
<1>3. f[k] = IF k = 0 THEN 0 ELSE f[k - 1] + ts[Len(ts) + 1 - k].size
  BY <1>2 DEF Sums
<1>4. g[k] = IF k = 0 THEN 0 ELSE g[k - 1] + ts[Len(ts) + 1 - k].size
  BY <1>2 DEF Sums
<1>5. k # 0 => f[k - 1] = g[k - 1]
  <2> SUFFICES ASSUME k # 0, k - 1 \in Bad PROVE FALSE
    BY <1>2
  <2> HIDE DEF Bad
  <2>1. k <= k - 1
    BY <1>1
  <2> QED
    BY <1>2, <2>1
<1> QED
  BY <1>2, <1>3, <1>4, <1>5

\* There is one.
LEMMA SumsExist ==
  ASSUME NEW ts, NEW n \in Nat
  PROVE  \E f : Sums(f, ts, n)
<1> DEFINE Bad == {k \in Nat : ~ \E f : Sums(f, ts, k)}
<1> SUFFICES ASSUME Bad # {} PROVE FALSE
  OBVIOUS
<1>1. PICK m \in Bad : \A j \in Bad : m <= j
  <2>1. Bad \in SUBSET Nat
    OBVIOUS
  <2> HIDE DEF Bad
  <2> QED
    BY <2>1, LeastNumber
<1>2. m \in Nat /\ ~ \E f : Sums(f, ts, m)
  OBVIOUS
<1>3. m # 0
  <2> SUFFICES ASSUME m = 0 PROVE FALSE
    OBVIOUS
  <2>1. Sums([k \in 0 .. 0 |-> 0], ts, 0)
    BY DEF Sums
  <2> QED
    BY <1>2, <2>1
<1>4. PICK f : Sums(f, ts, m - 1)
  <2> SUFFICES ASSUME m - 1 \in Bad PROVE FALSE
    BY <1>2, <1>3
  <2> HIDE DEF Bad
  <2>1. m <= m - 1
    BY <1>1
  <2> QED
    BY <1>2, <2>1
<1> DEFINE last == f[m - 1] + ts[Len(ts) + 1 - m].size
           g == [k \in 0 .. m |-> IF k = m THEN last ELSE f[k]]
<1>5. \A k \in 0 .. m : g[k] = IF k = 0 THEN 0 ELSE g[k - 1] + ts[Len(ts) + 1 - k].size
  <2> SUFFICES ASSUME NEW k \in 0 .. m
               PROVE  g[k] = IF k = 0 THEN 0 ELSE g[k - 1] + ts[Len(ts) + 1 - k].size
    OBVIOUS
  <2>1. \A j \in 0 .. m - 1 :
          f[j] = IF j = 0 THEN 0 ELSE f[j - 1] + ts[Len(ts) + 1 - j].size
    BY <1>4 DEF Sums
  <2>2. \A j \in 0 .. m - 1 : g[j] = f[j]
    BY <1>2
  <2>3. CASE k = m
    <3>1. g[m] = last /\ g[m - 1] = f[m - 1]
      BY <1>2, <1>3, <2>2
    <3> HIDE DEF g
    <3> QED
      BY <1>3, <2>3, <3>1
  <2>4. CASE k # m
    <3>1. k \in 0 .. m - 1 /\ (k # 0 => k - 1 \in 0 .. m - 1)
      BY <1>2, <2>4
    <3> HIDE DEF g, last
    <3> QED
      BY <2>1, <2>2, <3>1
  <2> QED
    BY <2>3, <2>4
<1>6. Sums(g, ts, m)
  <2>1. g = [k \in 0 .. m |-> g[k]]
    OBVIOUS
  <2> HIDE DEF g, last
  <2> QED
    BY <1>5, <2>1 DEF Sums
<1> QED
  BY <1>2, <1>6

\* The newest turn counts first, and every further one is added.
LEMMA NewestAddsUp ==
  ASSUME NEW ts
  PROVE  /\ Newest(ts, 0) = 0
         /\ \A n \in Nat \ {0} : Newest(ts, n) = Newest(ts, n - 1) + ts[Len(ts) + 1 - n].size
<1>1. ASSUME NEW n \in Nat
      PROVE  \E f : Sums(f, ts, n) /\ Newest(ts, n) = f[n]
  <2> DEFINE f == CHOOSE f : Sums(f, ts, n)
  <2>1. Sums(f, ts, n)
    BY SumsExist
  <2>2. Newest(ts, n) = f[n]
    BY DEF Newest, Sums
  <2> QED
    BY <2>1, <2>2
<1>2. Newest(ts, 0) = 0
  <2>1. PICK f : Sums(f, ts, 0) /\ Newest(ts, 0) = f[0]
    BY <1>1
  <2>2. f[0] = 0
    BY <2>1 DEF Sums
  <2> QED
    BY <2>1, <2>2
<1>3. ASSUME NEW n \in Nat \ {0}
      PROVE  Newest(ts, n) = Newest(ts, n - 1) + ts[Len(ts) + 1 - n].size
  <2>1. PICK f : Sums(f, ts, n) /\ Newest(ts, n) = f[n]
    BY <1>1
  <2>2. n - 1 \in Nat
    OBVIOUS
  <2>3. PICK g : Sums(g, ts, n - 1) /\ Newest(ts, n - 1) = g[n - 1]
    BY <1>1, <2>2
  <2>4. g[n - 1] = f[n - 1]
    BY <2>1, <2>2, <2>3, SumsAgree
  <2>5. f[n] = f[n - 1] + ts[Len(ts) + 1 - n].size
    BY <2>1 DEF Sums
  <2> QED
    BY <2>1, <2>3, <2>4, <2>5
<1> QED
  BY <1>2, <1>3

\* The tokens are a number, and more turns have no fewer.
LEMMA NewestGrows ==
  ASSUME NEW ts \in Seq(Turn)
  PROVE  /\ \A n \in 0 .. Len(ts) : Newest(ts, n) \in Nat
         /\ \A n \in 0 .. Len(ts) : \A m \in 0 .. n : Newest(ts, m) <= Newest(ts, n)
<1> DEFINE Bad == {n \in 0 .. Len(ts) : ~ /\ Newest(ts, n) \in Nat
                                          /\ \A m \in 0 .. n : /\ Newest(ts, m) \in Nat
                                                               /\ Newest(ts, m) <= Newest(ts, n)}
<1> SUFFICES ASSUME Bad # {} PROVE FALSE
  OBVIOUS
<1>1. PICK n \in Bad : \A j \in Bad : n <= j
  <2>1. Bad \in SUBSET Nat
    OBVIOUS
  <2> HIDE DEF Bad
  <2> QED
    BY <2>1, LeastNumber
<1>2. n \in 0 .. Len(ts) /\ Len(ts) \in Nat
  OBVIOUS
<1>3. n # 0
  <2> SUFFICES ASSUME n = 0 PROVE FALSE
    OBVIOUS
  <2>1. Newest(ts, 0) = 0
    BY NewestAddsUp
  <2> QED
    BY <2>1
<1>4. n - 1 \in 0 .. Len(ts) /\ n - 1 \notin Bad
  <2> HIDE DEF Bad
  <2>1. n - 1 \in Bad => n <= n - 1
    BY <1>1
  <2> QED
    BY <1>2, <1>3, <2>1
<1>5. /\ Newest(ts, n - 1) \in Nat
      /\ \A m \in 0 .. n - 1 : Newest(ts, m) \in Nat /\ Newest(ts, m) <= Newest(ts, n - 1)
  BY <1>4
<1>6. Newest(ts, n) = Newest(ts, n - 1) + ts[Len(ts) + 1 - n].size
  BY <1>2, <1>3, NewestAddsUp
<1>7. ts[Len(ts) + 1 - n].size \in Nat
  <2>1. ts[Len(ts) + 1 - n] \in Turn
    BY <1>2, <1>3
  <2> QED
    BY <2>1, SizeAssumption DEF Turn
<1>8. n \notin Bad
  <2>1. Newest(ts, n) \in Nat /\ Newest(ts, n - 1) <= Newest(ts, n)
    BY <1>5, <1>6, <1>7
  <2>2. ASSUME NEW m \in 0 .. n PROVE Newest(ts, m) \in Nat /\ Newest(ts, m) <= Newest(ts, n)
    <3>1. m = n \/ m \in 0 .. n - 1
      BY <1>2
    <3> QED
      BY <1>5, <2>1, <3>1
  <2> QED
    BY <2>1, <2>2
<1> QED
  BY <1>8

\* Dropping old turns changes nothing for the newest ones.
LEMMA NewestOfRest ==
  ASSUME NEW ts \in Seq(Turn), NEW k \in 1 .. Len(ts)
  PROVE  \A n \in 0 .. Len(ts) - k + 1 : Newest(SubSeq(ts, k, Len(ts)), n) = Newest(ts, n)
<1> DEFINE rest == SubSeq(ts, k, Len(ts))
           Bad == {n \in 0 .. Len(ts) - k + 1 : Newest(rest, n) # Newest(ts, n)}
<1> SUFFICES ASSUME Bad # {} PROVE FALSE
  OBVIOUS
<1>1. PICK n \in Bad : \A j \in Bad : n <= j
  <2>1. Bad \in SUBSET Nat
    OBVIOUS
  <2> HIDE DEF Bad
  <2> QED
    BY <2>1, LeastNumber
<1>2. n \in 0 .. Len(ts) - k + 1 /\ Newest(rest, n) # Newest(ts, n) /\ Len(ts) \in Nat
  OBVIOUS
<1>3. n # 0
  BY <1>2, NewestAddsUp
<1>4. Newest(rest, n - 1) = Newest(ts, n - 1)
  <2> SUFFICES ASSUME n - 1 \in Bad PROVE FALSE
    BY <1>2, <1>3
  <2> HIDE DEF Bad
  <2>1. n <= n - 1
    BY <1>1
  <2> QED
    BY <1>2, <2>1
<1>5. rest[Len(rest) + 1 - n] = ts[Len(ts) + 1 - n]
  <2>1. Len(rest) = Len(ts) - k + 1
    BY <1>2
  <2>2. \A j \in 1 .. Len(ts) - k + 1 : rest[j] = ts[k + j - 1]
    BY <1>2
  <2>3. Len(ts) - k + 1 + 1 - n \in 1 .. Len(ts) - k + 1
    BY <1>2, <1>3
  <2>4. k + (Len(ts) - k + 1 + 1 - n) - 1 = Len(ts) + 1 - n
    BY <1>2
  <2> HIDE DEF rest
  <2> QED
    BY <2>1, <2>2, <2>3, <2>4
<1>6. /\ Newest(rest, n) = Newest(rest, n - 1) + rest[Len(rest) + 1 - n].size
      /\ Newest(ts, n) = Newest(ts, n - 1) + ts[Len(ts) + 1 - n].size
  <2>1. n \in Nat \ {0}
    BY <1>2, <1>3
  <2> HIDE DEF rest, Bad
  <2> QED
    BY <2>1, NewestAddsUp
<1> HIDE DEF rest, Bad
<1> QED
  BY <1>2, <1>4, <1>5, <1>6
-----------------------------------------------------------------------------
\* From 8192 tokens on, the recent turns alone never fill more than the input
\* budget; below, compaction may keep more than the prompt can hold.
LEMMA RecentWithinBudget ==
  ASSUME window \in Nat, window >= 8192
  PROVE  RecentBudget <= Budget
<1> DEFINE recent  == (window * 25) \div 100
           reserve == (window * 15) \div 100
           buffer  == (window * 10) \div 100
<1>1. /\ recent \in Nat /\ 100 * recent <= 25 * window
      /\ reserve \in Nat /\ 100 * reserve <= 15 * window
      /\ buffer \in Nat /\ 100 * buffer <= 10 * window
  OBVIOUS
<1>2. recent >= 1
  OBVIOUS
<1> HIDE DEF recent, reserve, buffer
<1>3. Larger(4096, reserve) + Larger(2048, buffer) + recent <= window
  BY <1>1 DEF Larger
<1>4. Larger(1, recent) = recent
  BY <1>1, <1>2 DEF Larger
<1> QED
  BY <1>1, <1>3, <1>4 DEF RecentBudget, Budget, Larger, recent, reserve, buffer

\* The first turn that compaction keeps is one of the turns.
LEMMA FirstKeptInTurns ==
  ASSUME Len(turns) \in Nat, Len(turns) > 0
  PROVE  FirstKept \in 1 .. Len(turns)
<1> DEFINE earlier == 2 .. Len(turns)
           fitting == {n \in earlier : Newest(turns, n) <= RecentBudget}
<1>1. IsFiniteSet(earlier) /\ Cardinality(earlier) = Len(turns) - 1
  BY FS_Interval
<1>2. fitting \subseteq earlier
  OBVIOUS
<1>3. FirstKept = Len(turns) - Cardinality(fitting)
  BY DEF FirstKept
<1> HIDE DEF earlier, fitting
<1>4. IsFiniteSet(fitting) /\ Cardinality(fitting) <= Cardinality(earlier)
  BY <1>1, <1>2, FS_Subset
<1>5. Cardinality(fitting) \in Nat
  BY <1>4, FS_CardinalityType
<1> QED
  BY <1>1, <1>3, <1>4, <1>5

\* Cutting the turns and moving the summary up to the cut loses no turn.
LEMMA CompactedKeepsTurns ==
  ASSUME IInv, FirstKept # 1, NEW size \in SummarySizes, NEW selected
  PROVE  LET result == Compacted(size, selected)
         IN  /\ Session(result.summary, result.turns)
             /\ result.summary.through + Len(result.turns) = said
<1> DEFINE f == FirstKept
           sum == [through |-> turns[f - 1].no, size |-> size]
           kept == SubSeq(turns, f, Len(turns))
<1>1. /\ summary.through \in Nat /\ turns \in Seq(Turn) /\ Len(turns) > 0
      /\ Follows(turns, summary.through) /\ summary.through + Len(turns) = said
      /\ Session(summary, turns)
  BY DEF IInv, Session
<1>2. f \in 2 .. Len(turns)
  BY <1>1, FirstKeptInTurns
<1> HIDE DEF f
<1>3. sum.through = summary.through + f - 1
  BY <1>1, <1>2 DEF Follows
<1>4. /\ kept \in Seq(Turn) /\ Len(kept) = Len(turns) - f + 1
      /\ \A k \in DOMAIN kept : k \in 1 .. Len(turns) - f + 1 /\ kept[k] = turns[f + k - 1]
  BY <1>1, <1>2
<1>5. Follows(kept, sum.through)
  <2> SUFFICES ASSUME NEW k \in DOMAIN kept PROVE kept[k].no = sum.through + k
    BY DEF Follows
  <2>1. kept[k] = turns[f + k - 1] /\ f + k - 1 \in DOMAIN turns /\ k \in Nat
    BY <1>1, <1>2, <1>4
  <2>2. turns[f + k - 1].no = summary.through + (f + k - 1)
    BY <1>1, <2>1 DEF Follows
  <2>3. kept[k].no = summary.through + (f + k - 1)
    BY <2>1, <2>2
  <2>4. summary.through \in Nat /\ f \in Nat /\ k \in Nat
    BY <1>1, <1>2, <2>1
  <2>5. summary.through + (f + k - 1) = (summary.through + f - 1) + k
    BY <2>4
  <2> HIDE DEF kept, sum
  <2> QED
    BY <1>3, <2>3, <2>5
<1>6. Session(sum, kept) /\ sum.through + Len(kept) = said
  <2>1. summary.through \in Nat /\ f \in 2 .. Len(turns) /\ Len(turns) \in Nat
    BY <1>1, <1>2
  <2>2. sum.through \in Nat
    BY <1>3, <2>1
  <2>3. Len(kept) > 0
    BY <1>4, <2>1
  <2>4. sum.through + Len(kept) = said
    <3>1. Len(kept) = Len(turns) - f + 1 /\ summary.through + Len(turns) = said
      BY <1>1, <1>4
    <3> HIDE DEF sum, kept
    <3> QED
      BY <1>3, <2>1, <3>1
  <2>5. kept \in Seq(Turn)
    BY <1>4
  <2>6. sum \in [through : Nat, size : {0} \cup SummarySizes]
    BY <2>2
  <2> HIDE DEF sum, kept
  <2> QED
    BY <1>5, <2>3, <2>4, <2>5, <2>6 DEF Session
<1>7. CASE Size(sum, kept, selected) > Budget
  BY <1>1, <1>7 DEF Compacted, Refused, f
<1>8. CASE ~ (Size(sum, kept, selected) > Budget)
  BY <1>6, <1>8 DEF Compacted, Accepted, f
<1> QED
  BY <1>7, <1>8

\* Whatever prepare returns, the session it leaves has all turns.
LEMMA PreparedKeepsTurns ==
  ASSUME IInv, NEW selected, NEW result \in Prepared(selected)
  PROVE  /\ Session(result.summary, result.turns)
         /\ result.summary.through + Len(result.turns) = said
<1>1. \/ \E why : result = Refused(why)
      \/ result = Accepted(summary, turns, selected)
      \/ FirstKept # 1 /\ \E size \in SummarySizes : result = Compacted(size, selected)
  BY DEF Prepared
<1>2. CASE FirstKept # 1 /\ \E size \in SummarySizes : result = Compacted(size, selected)
  BY <1>2, CompactedKeepsTurns
<1>3. CASE \/ \E why : result = Refused(why)
           \/ result = Accepted(summary, turns, selected)
  BY <1>3 DEF Refused, Accepted, IInv
<1> QED
  BY <1>1, <1>2, <1>3

\* A recorded turn follows the last one.
LEMMA RecordKeepsTurns ==
  ASSUME IInv, summary' = summary, NEW size \in TurnSizes, Record(size)
  PROVE  /\ said' \in 1 .. MaxTurns /\ Session(summary', turns')
         /\ summary'.through + Len(turns') = said'
<1>1. /\ summary.through \in Nat /\ turns \in Seq(Turn) /\ said \in Nat /\ said >= 1
      /\ summary \in [through : Nat, size : {0} \cup SummarySizes]
      /\ Follows(turns, summary.through) /\ summary.through + Len(turns) = said
      /\ [no |-> said + 1, size |-> size] \in Turn
  BY SizeAssumption DEF IInv, Session, Turn
<1>2. said < MaxTurns /\ said' = said + 1 /\ turns' = Append(turns, [no |-> said + 1, size |-> size])
  BY DEF Record
<1>3. turns' \in Seq(Turn) /\ Len(turns') = Len(turns) + 1
  BY <1>1, <1>2
<1>4. Follows(turns', summary.through)
  <2> SUFFICES ASSUME NEW k \in DOMAIN turns' PROVE turns'[k].no = summary.through + k
    BY DEF Follows
  <2>1. CASE k \in DOMAIN turns
    BY <1>1, <1>2, <2>1 DEF Follows
  <2>2. CASE k = Len(turns) + 1
    <3>1. turns'[k] = [no |-> said + 1, size |-> size]
      BY <1>1, <1>2, <2>2
    <3>2. turns'[k].no = said + 1
      BY <3>1
    <3>3. said + 1 = summary.through + (Len(turns) + 1)
      BY <1>1
    <3> QED
      BY <2>2, <3>2, <3>3
  <2> QED
    BY <1>1, <1>3, <2>1, <2>2
<1>5. said' \in 1 .. MaxTurns
  BY <1>1, <1>2, SizeAssumption
<1> QED
  BY <1>1, <1>2, <1>3, <1>4, <1>5 DEF Session

-----------------------------------------------------------------------------
(* What fits. *)

\* The budgets are numbers, and the input has at least one token.
LEMMA Budgets ==
  ASSUME window \in Windows
  PROVE  /\ Budget \in Nat /\ Budget >= 1
         /\ RecentBudget \in Nat
         /\ Budget <= window - 4096 - 2048 \/ Budget <= 1
<1>1. window \in Nat
  BY SizeAssumption
<1> DEFINE recent  == (window * 25) \div 100
           reserve == (window * 15) \div 100
           buffer  == (window * 10) \div 100
<1>2. recent \in Nat /\ reserve \in Nat /\ buffer \in Nat
  BY <1>1
<1> HIDE DEF recent, reserve, buffer
<1> QED
  BY <1>1, <1>2 DEF RecentBudget, Budget, Larger, recent, reserve, buffer

\* The size of a prompt is a number of tokens.
LEMMA SizeIsNumber ==
  ASSUME IInv, NEW sum \in [through : Nat, size : {0} \cup SummarySizes],
         NEW ts \in Seq(Turn), NEW selected \in {0} \cup ArtifactSizes
  PROVE  /\ fixed \in Nat /\ refs * RefSize \in Nat /\ sum.size \in Nat
         /\ Tokens(ts) \in Nat /\ selected \in Nat
         /\ Size(sum, ts, selected) \in Nat
<1>1. fixed \in Nat /\ refs \in Nat /\ RefSize \in Nat /\ sum.size \in Nat /\ selected \in Nat
  BY SizeAssumption DEF IInv
<1>2. refs * RefSize \in Nat
  BY <1>1
<1>3. Tokens(ts) \in Nat
  <2>1. Len(ts) \in 0 .. Len(ts)
    OBVIOUS
  <2> QED
    BY <2>1, NewestGrows DEF Tokens
<1> DEFINE catalog == refs * RefSize
<1>4. catalog \in Nat
  BY <1>2
<1>5. Size(sum, ts, selected) = fixed + catalog + sum.size + Tokens(ts) + selected
  BY DEF Size
<1> HIDE DEF catalog
<1>6. Size(sum, ts, selected) \in Nat
  BY <1>1, <1>3, <1>4, <1>5
<1> QED
  BY <1>1, <1>2, <1>3, <1>6

\* Every prompt that prepare accepts is within the budget.
LEMMA PreparedWithinBudget ==
  ASSUME IInv, NEW selected \in {0} \cup ArtifactSizes, NEW result \in Prepared(selected)
  PROVE  /\ result.prompt \in Nat /\ result.prompt <= Budget
         /\ result.refusal \in {"no", "limit", "whole", "reply"}
<1>1. /\ prompt \in Nat /\ prompt <= Budget /\ Budget \in Nat
      /\ summary \in [through : Nat, size : {0} \cup SummarySizes]
      /\ turns \in Seq(Turn) /\ Len(turns) \in Nat /\ Len(turns) > 0
  BY Budgets DEF IInv, Session
<1>2. \/ \E why \in {"limit", "whole", "reply"} : result = Refused(why)
      \/ /\ Size(summary, turns, selected) <= Budget
         /\ result = Accepted(summary, turns, selected)
      \/ FirstKept # 1 /\ \E size \in SummarySizes : result = Compacted(size, selected)
  BY DEF Prepared
<1>3. CASE \E why \in {"limit", "whole", "reply"} : result = Refused(why)
  BY <1>1, <1>3 DEF Refused
<1>4. CASE /\ Size(summary, turns, selected) <= Budget
           /\ result = Accepted(summary, turns, selected)
  <2>1. Size(summary, turns, selected) \in Nat
    BY <1>1, SizeIsNumber
  <2> QED
    BY <1>4, <2>1 DEF Accepted
<1>5. ASSUME FirstKept # 1, NEW size \in SummarySizes, result = Compacted(size, selected)
      PROVE  /\ result.prompt \in Nat /\ result.prompt <= Budget
             /\ result.refusal \in {"no", "limit", "whole", "reply"}
  <2> DEFINE sum == [through |-> turns[FirstKept - 1].no, size |-> size]
             kept == SubSeq(turns, FirstKept, Len(turns))
  <2>1. FirstKept \in 2 .. Len(turns)
    BY <1>1, <1>5, FirstKeptInTurns
  <2>2. sum \in [through : Nat, size : {0} \cup SummarySizes]
    <3>1. FirstKept - 1 \in 1 .. Len(turns)
      BY <1>1, <2>1
    <3>2. turns[FirstKept - 1] \in Turn
      BY <1>1, <3>1
    <3>3. turns[FirstKept - 1].no \in Nat
      BY <3>2 DEF Turn
    <3> QED
      BY <3>3
  <2>3. kept \in Seq(Turn)
    BY <1>1, <2>1
  <2>4. result = IF Size(sum, kept, selected) > Budget THEN Refused("limit")
                 ELSE Accepted(sum, kept, selected)
    BY <1>5 DEF Compacted
  <2> HIDE DEF sum, kept
  <2>5. Size(sum, kept, selected) \in Nat
    BY <2>2, <2>3, SizeIsNumber
  <2>6. CASE Size(sum, kept, selected) > Budget
    BY <1>1, <2>4, <2>6 DEF Refused
  <2>7. CASE Size(sum, kept, selected) <= Budget
    BY <1>1, <2>4, <2>5, <2>7 DEF Accepted
  <2> QED
    BY <1>1, <2>5, <2>6, <2>7
<1> QED
  BY <1>2, <1>3, <1>4, <1>5

\* The turns that compaction keeps fit the recent budget, if each of them does.
LEMMA KeptFitsRecentBudget ==
  ASSUME IInv, \A k \in DOMAIN turns : turns[k].size <= RecentBudget
  PROVE  Tokens(SubSeq(turns, FirstKept, Len(turns))) <= RecentBudget
<1> DEFINE total == Len(turns)
           fitting == {n \in 2 .. total : Newest(turns, n) <= RecentBudget}
           count == Cardinality(fitting)
<1>1. /\ turns \in Seq(Turn) /\ total \in Nat /\ total > 0
      /\ RecentBudget \in Nat
  BY Budgets DEF IInv, Session
<1>2. \A n \in 0 .. total : Newest(turns, n) \in Nat
  BY <1>1, NewestGrows
<1>3. Newest(turns, count + 1) <= RecentBudget /\ count + 1 \in 1 .. total
  <2>1. CASE fitting = {}
    <3>1. count = 0
      BY <2>1, FS_EmptySet
    <3>2. Newest(turns, 1) = Newest(turns, 0) + turns[total].size /\ Newest(turns, 0) = 0
      <4>1. Newest(turns, 1) = Newest(turns, 1 - 1) + turns[total + 1 - 1].size
        BY NewestAddsUp
      <4>2. 1 - 1 = 0 /\ total + 1 - 1 = total
        BY <1>1
      <4> QED
        BY <4>1, <4>2, NewestAddsUp
    <3>3. total \in DOMAIN turns /\ turns[total] \in Turn
      BY <1>1
    <3>4. turns[total].size \in Nat
      BY <3>3, SizeAssumption DEF Turn
    <3>5. turns[total].size <= RecentBudget
      BY <3>3
    <3> HIDE DEF total, count, fitting
    <3> QED
      BY <1>1, <3>1, <3>2, <3>4, <3>5
  <2>2. CASE fitting # {}
    <3> DEFINE gaps == {total - n : n \in fitting}
    <3>1. gaps \in SUBSET Nat /\ gaps # {}
      BY <1>1, <2>2
    <3>2. PICK gap \in gaps : \A other \in gaps : gap <= other
      <4> HIDE DEF gaps
      <4> QED
        BY <3>1, LeastNumber
    <3>3. PICK most \in fitting : gap = total - most
      OBVIOUS
    <3>4. most \in 2 .. total /\ Newest(turns, most) <= RecentBudget
      OBVIOUS
    <3>5. \A n \in fitting : n \in 2 .. most
      <4> SUFFICES ASSUME NEW n \in fitting PROVE n \in 2 .. most
        OBVIOUS
      <4>1. total - n \in gaps /\ n \in 2 .. total
        OBVIOUS
      <4>2. total - most <= total - n
        BY <3>2, <3>3, <4>1
      <4> HIDE DEF total, fitting
      <4> QED
        BY <1>1, <3>4, <4>1, <4>2
    <3>6. \A n \in 2 .. most : n \in fitting
      <4> SUFFICES ASSUME NEW n \in 2 .. most PROVE n \in fitting
        OBVIOUS
      <4>1. n \in 2 .. total /\ n \in 0 .. most /\ most \in 0 .. total /\ n \in 0 .. total
        BY <1>1, <3>4
      <4>2. Newest(turns, n) <= Newest(turns, most)
        BY <1>1, <4>1, NewestGrows
      <4>3. Newest(turns, n) \in Nat /\ Newest(turns, most) \in Nat
        BY <1>2, <4>1
      <4>4. Newest(turns, n) <= RecentBudget
        BY <1>1, <3>4, <4>2, <4>3
      <4> QED
        BY <4>1, <4>4
    <3>7. fitting = 2 .. most
      BY <3>5, <3>6
    <3>8. count = most - 1
      <4>1. Cardinality(2 .. most) = most - 1
        BY <1>1, <3>4, FS_Interval
      <4> HIDE DEF fitting
      <4> QED
        BY <3>7, <4>1
    <3> HIDE DEF total, fitting, count
    <3>9. count + 1 = most
      BY <1>1, <3>4, <3>8
    <3> QED
      BY <1>1, <3>4, <3>9
  <2> QED
    BY <2>1, <2>2
<1>4. FirstKept = total - count
  BY DEF FirstKept
<1>5. count \in Int
  <2>1. fitting \subseteq 2 .. total /\ IsFiniteSet(2 .. total)
    BY <1>1, FS_Interval
  <2> HIDE DEF fitting
  <2>2. IsFiniteSet(fitting)
    BY <2>1, FS_Subset
  <2> QED
    BY <2>2, FS_CardinalityType
<1> HIDE DEF fitting, count
<1> DEFINE kept == SubSeq(turns, FirstKept, Len(turns))
<1>6. FirstKept \in 1 .. Len(turns)
  BY <1>1, FirstKeptInTurns
<1>7. Len(kept) = Len(turns) - FirstKept + 1
  BY <1>1, <1>6
<1>8. Len(turns) - FirstKept + 1 = count + 1
  BY <1>1, <1>4, <1>6, <1>5
<1>9. Newest(kept, count + 1) = Newest(turns, count + 1)
  <2>1. count + 1 \in 0 .. Len(turns) - FirstKept + 1
    BY <1>1, <1>3, <1>5, <1>8
  <2> QED
    BY <1>1, <1>6, <2>1, NewestOfRest
<1> HIDE DEF kept
<1>10. Tokens(kept) <= RecentBudget
  BY <1>3, <1>7, <1>8, <1>9 DEF Tokens
<1> QED
  BY <1>10 DEF kept

\* If the turns are small and there is room, prepare asks for no smaller input.
LEMMA SmallTurnsFit == IInv => SmallTurnsAccepted
<1> SUFFICES ASSUME IInv, \A k \in DOMAIN turns : turns[k].size <= RecentBudget, Room(0),
                    NEW result \in Prepared(0)
             PROVE  result.refusal \in {"no", "reply"}
  BY DEF SmallTurnsAccepted
<1> DEFINE catalog == refs * RefSize
<1>1. /\ turns \in Seq(Turn) /\ Len(turns) \in Nat /\ Len(turns) > 0 /\ turns # <<>>
      /\ summary \in [through : Nat, size : {0} \cup SummarySizes]
      /\ RecentBudget \in Nat /\ Budget \in Nat /\ Budget >= 1
  BY Budgets DEF IInv, Session
<1>2. 0 \in {0} \cup ArtifactSizes
  OBVIOUS
<1>3. fixed \in Nat /\ catalog \in Nat /\ summary.size \in Nat
  BY <1>1, <1>2, SizeIsNumber
<1>4. \A size \in {summary.size} \cup SummarySizes :
        size \in Nat /\ fixed + catalog + RecentBudget + 0 + size <= Budget
  BY <1>3, SizeAssumption DEF Room
<1>5. ASSUME NEW sum \in [through : Nat, size : {0} \cup SummarySizes],
             sum.size \in {summary.size} \cup SummarySizes,
             NEW ts \in Seq(Turn), Tokens(ts) <= RecentBudget
      PROVE  Size(sum, ts, 0) <= Budget
  <2>1. Size(sum, ts, 0) = fixed + catalog + sum.size + Tokens(ts) + 0
    BY DEF Size
  <2>2. Tokens(ts) \in Nat
    BY <1>2, SizeIsNumber
  <2>3. sum.size \in Nat /\ fixed + catalog + RecentBudget + 0 + sum.size <= Budget
    BY <1>4, <1>5
  <2> HIDE DEF catalog
  <2> QED
    BY <1>1, <1>3, <1>5, <2>1, <2>2, <2>3
<1>6. ~ (0 > Budget \/ \E k \in DOMAIN turns : turns[k].size > Budget)
  <2> SUFFICES ASSUME NEW k \in DOMAIN turns, turns[k].size > Budget PROVE FALSE
    BY <1>1
  <2>1. turns[k] \in Turn /\ turns[k].size <= RecentBudget
    BY <1>1
  <2>2. turns[k].size \in Nat
    BY <2>1, SizeAssumption DEF Turn
  <2>3. fixed + catalog + RecentBudget + 0 + summary.size <= Budget
    BY <1>4
  <2> HIDE DEF catalog
  <2>4. RecentBudget <= Budget
    BY <1>1, <1>3, <2>3
  <2> QED
    BY <1>1, <2>1, <2>2, <2>4
<1>7. FirstKept \in 1 .. Len(turns)
  BY <1>1, FirstKeptInTurns
<1>8. FirstKept = 1 => Size(summary, turns, 0) <= Budget
  <2> SUFFICES ASSUME FirstKept = 1 PROVE Size(summary, turns, 0) <= Budget
    OBVIOUS
  <2>1. SubSeq(turns, 1, Len(turns)) = turns
    BY <1>1
  <2>2. Tokens(turns) <= RecentBudget
    BY <2>1, KeptFitsRecentBudget
  <2> QED
    BY <1>1, <1>5, <2>2
<1>9. ASSUME NEW size \in SummarySizes, FirstKept # 1, result = Compacted(size, 0)
      PROVE  result.refusal = "no"
  <2> DEFINE sum == [through |-> turns[FirstKept - 1].no, size |-> size]
             kept == SubSeq(turns, FirstKept, Len(turns))
  <2>1. sum \in [through : Nat, size : {0} \cup SummarySizes] /\ sum.size = size
    <3>1. FirstKept - 1 \in 1 .. Len(turns)
      BY <1>1, <1>7, <1>9
    <3>2. turns[FirstKept - 1] \in Turn
      BY <1>1, <3>1
    <3>3. turns[FirstKept - 1].no \in Nat
      BY <3>2 DEF Turn
    <3> QED
      BY <3>3
  <2>2. kept \in Seq(Turn)
    BY <1>1, <1>7
  <2>3. Tokens(kept) <= RecentBudget
    BY KeptFitsRecentBudget
  <2>4. result = IF Size(sum, kept, 0) > Budget THEN Refused("limit")
                 ELSE Accepted(sum, kept, 0)
    BY <1>9 DEF Compacted
  <2> HIDE DEF sum, kept
  <2>5. Size(sum, kept, 0) <= Budget
    BY <1>5, <2>1, <2>2, <2>3
  <2>6. Size(sum, kept, 0) \in Nat
    BY <1>2, <2>1, <2>2, SizeIsNumber
  <2>7. result = Accepted(sum, kept, 0)
    BY <1>1, <2>4, <2>5, <2>6
  <2> QED
    BY <2>7 DEF Accepted
<1>10. \/ /\ Size(summary, turns, 0) <= Budget
          /\ result = Accepted(summary, turns, 0)
       \/ result = Refused("reply")
       \/ FirstKept # 1 /\ \E size \in SummarySizes : result = Compacted(size, 0)
  <2>1. Prepared(0) = IF Size(summary, turns, 0) <= Budget
                      THEN {Accepted(summary, turns, 0)}
                      ELSE IF FirstKept = 1 THEN {Refused("whole")}
                      ELSE {Refused("reply")} \cup {Compacted(size, 0) : size \in SummarySizes}
    BY <1>1, <1>6 DEF Prepared
  <2> QED
    BY <1>8, <2>1
<1> QED
  BY <1>9, <1>10 DEF Accepted, Refused
-----------------------------------------------------------------------------
(* The invariant. *)

\* A session starts with the issue, and perhaps a turn of its history.
LEMMA InitIInv == Init => IInv
<1> SUFFICES ASSUME Init PROVE IInv
  OBVIOUS
<1>1. PICK n \in {1, 2} : \E sizes \in [1 .. n -> TurnSizes] :
         /\ n <= MaxTurns
         /\ refs \in {0, n - 1} /\ refs <= MaxRefs
         /\ turns = [k \in 1 .. n |-> [no |-> k, size |-> sizes[k]]]
         /\ said = n
  BY DEF Init
<1>2. PICK sizes \in [1 .. n -> TurnSizes] :
         /\ turns = [k \in 1 .. n |-> [no |-> k, size |-> sizes[k]]]
         /\ said = n
  BY <1>1
<1>3. turns \in Seq(Turn) /\ Len(turns) = n
  BY <1>2 DEF Turn
<1>4. /\ summary = [through |-> 0, size |-> 0] /\ pc = "plan" /\ prompt = 0 /\ refusal = "no"
      /\ window \in Windows /\ fixed \in FixedSizes
  BY DEF Init
<1>5. \A k \in DOMAIN turns : turns[k].no = 0 + k
  BY <1>2
<1>6. said \in 1 .. MaxTurns /\ refs \in 0 .. MaxRefs
  BY <1>1, SizeAssumption
<1>7. summary.through = 0 /\ summary \in [through : Nat, size : {0} \cup SummarySizes]
  BY <1>4
<1>8. Session(summary, turns) /\ summary.through + Len(turns) = said
  BY <1>2, <1>3, <1>5, <1>7 DEF Session, Follows
<1>9. prompt \in Nat /\ prompt <= Budget
  BY <1>4, Budgets
<1> QED
  BY <1>4, <1>6, <1>8, <1>9 DEF IInv

\* Every step keeps the invariant.
LEMMA NextIInv == IInv /\ [Next]_vars => IInv'
<1> SUFFICES ASSUME IInv, [Next]_vars PROVE IInv'
  OBVIOUS
<1>1. CASE Plan \/ ExecuteStep
  <2>1. \E selected \in {0} \cup ArtifactSizes : \E result \in Prepared(selected) : Take(result)
    BY <1>1 DEF Plan, ExecuteStep
  <2>2. PICK selected \in {0} \cup ArtifactSizes : \E result \in Prepared(selected) : Take(result)
    BY <2>1
  <2>3. PICK result \in Prepared(selected) : Take(result)
    BY <2>2
  <2>4. /\ summary' = result.summary /\ turns' = result.turns
        /\ prompt' = result.prompt /\ refusal' = result.refusal
    BY <2>3 DEF Take
  <2>5. /\ said' = said /\ pc' \in {"step", "answer"} /\ window' = window
        /\ fixed' \in FixedSizes /\ refs' \in 0 .. MaxRefs
    BY <1>1, SizeAssumption DEF Plan, ExecuteStep, Catalogued, IInv
  <2>6. Session(summary', turns') /\ summary'.through + Len(turns') = said'
    BY <2>4, <2>5, PreparedKeepsTurns
  <2>7. prompt' \in Nat /\ prompt' <= Budget' /\ refusal' \in {"no", "limit", "whole", "reply"}
    BY <2>4, <2>5, PreparedWithinBudget DEF Budget
  <2> QED
    BY <2>5, <2>6, <2>7 DEF IInv
<1>2. CASE Answer \/ Comment
  <2>1. PICK size \in TurnSizes : Record(size)
    BY <1>2 DEF Answer, Comment
  <2>2. /\ pc' \in {"plan", "waiting"} /\ fixed' \in FixedSizes /\ refs' \in 0 .. MaxRefs
        /\ UNCHANGED <<window, summary, prompt, refusal>>
    BY <1>2, SizeAssumption DEF Answer, Comment, Catalogued, IInv
  <2>3. /\ said' \in 1 .. MaxTurns /\ Session(summary', turns')
        /\ summary'.through + Len(turns') = said'
    BY <2>1, <2>2, RecordKeepsTurns
  <2> QED
    BY <2>2, <2>3 DEF IInv, Budget
<1>3. CASE OtherAgent
  <2>1. window' \in Windows /\ prompt' = 0
    BY <1>3 DEF OtherAgent
  <2>2. prompt' \in Nat /\ prompt' <= Budget'
    <3>1. (window \in Windows)' => (Budget \in Nat /\ Budget >= 1)'
      BY Budgets, PTL
    <3> QED
      BY <2>1, <3>1
  <2> QED
    BY <1>3, <2>1, <2>2 DEF OtherAgent, IInv, Session, Follows
<1>4. CASE UNCHANGED vars
  BY <1>4 DEF vars, IInv, Session, Follows, Budget
<1> QED
  BY <1>1, <1>2, <1>3, <1>4 DEF Next

\* The invariant holds in every state of a session.
THEOREM Invariance == Spec => []IInv
<1> QED
  BY InitIInv, NextIInv, PTL DEF Spec

\* However often a conversation of any length is compacted, each of its turns is
\* among the recent ones, in its place, or up to the end of the summary, and the
\* request that is planned and executed is never only summarised.
THEOREM NoTurnLost == Spec => []ConversationKept
<1>1. IInv => EveryTurnKept
  BY DEF IInv, Session, Follows, EveryTurnKept
<1>2. IInv => RequestVerbatim
  <2> SUFFICES ASSUME IInv PROVE turns # <<>> /\ Last(turns).no = said
    BY DEF RequestVerbatim
  <2>1. turns \in Seq(Turn) /\ Len(turns) > 0 /\ Len(turns) \in DOMAIN turns
    BY DEF IInv, Session
  <2>2. turns[Len(turns)].no = said
    BY <2>1 DEF IInv, Session, Follows
  <2> QED
    BY <2>1, <2>2 DEF Last
<1>3. IInv => ConversationKept
  BY <1>1, <1>2 DEF ConversationKept
<1> QED
  BY Invariance, <1>3, PTL

\* Every variable keeps its type: in particular the summary stands for turns of
\* the conversation, and a prompt has a number of tokens.
THEOREM TypeCorrect == Spec => []TypeOK
<1>1. IInv => TypeOK
  <2> SUFFICES ASSUME IInv PROVE TypeOK
    OBVIOUS
  <2>1. /\ summary \in [through : Nat, size : {0} \cup SummarySizes]
        /\ turns \in Seq(Turn) /\ summary.through + Len(turns) = said
        /\ said \in 1 .. MaxTurns
    BY DEF IInv, Session
  <2>2. summary.through \in 0 .. MaxTurns
    BY <2>1, SizeAssumption
  <2>3. summary \in [through : 0 .. MaxTurns, size : {0} \cup SummarySizes]
    BY <2>1, <2>2
  <2> QED
    BY <2>1, <2>3 DEF IInv, TypeOK
<1> QED
  BY Invariance, <1>1, PTL

\* In every window, no prompt that an agent used exceeds what the window leaves
\* for the input; and a conversation of small turns, of any length, is never
\* refused for its size while the rest leaves room for the recent turns.
THEOREM PromptsFit == Spec => []PromptFits
<1>1. IInv => WithinWindow
  <2> SUFFICES ASSUME IInv PROVE WithinWindow
    OBVIOUS
  <2>1. /\ prompt \in Nat /\ prompt <= Budget /\ Budget \in Nat /\ window \in Nat
        /\ Budget <= window - 4096 - 2048 \/ Budget <= 1
    BY Budgets, SizeAssumption DEF IInv
  <2> QED
    BY <2>1 DEF WithinWindow
<1>2. IInv => PromptFits
  BY <1>1, SmallTurnsFit DEF PromptFits
<1> QED
  BY Invariance, <1>2, PTL
=============================================================================
