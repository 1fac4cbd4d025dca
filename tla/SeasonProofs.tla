------------------------------ MODULE SeasonProofs ------------------------------
(***************************************************************************)
(* Proofs about Season and Scoring, for any teams, divisions, awards,      *)
(* matchups, players and rows, and whatever the operator writes where.     *)
(***************************************************************************)
EXTENDS Season, FiniteSums

(***************************************************************************)
(* The inductive invariant                                                 *)
(***************************************************************************)
LEMMA WrittenSection ==
    ASSUME NEW Keys, NEW Values, NEW section \in Section(Keys, Values),
           NEW key \in Keys, NEW entry \in Values
    PROVE  Written(section, key, entry) \in Section(Keys, Values)
<1>1. PICK K \in SUBSET Keys : section \in [K -> Values]
  BY DEF Section
<1>2. Written(section, key, entry) \in [K \cup {key} -> Values]
  BY <1>1 DEF Written
<1> QED BY <1>2 DEF Section

LEMMA SectionEntry ==
    ASSUME NEW Keys, NEW Values, NEW section \in Section(Keys, Values)
    PROVE  /\ DOMAIN section \subseteq Keys
           /\ \A k \in DOMAIN section : section[k] \in Values
BY DEF Section

LEMMA NothingRecorded ==
    ASSUME NEW Keys, NEW Values
    PROVE  Nothing \in Section(Keys, Values)
<1>1. Nothing \in [{} -> Values]
  BY DEF Nothing
<1> QED BY <1>1 DEF Section

Results == [marks : Section(scope.divisions, Mark),
            presidents : scope.names \cup {None},
            cup : scope.names \cup {None},
            series : Section(scope.series, Outcome),
            finalists : Section(scope.awards, SUBSET scope.slugs)]

(* The entry to be edited, recorded or not, is one of its section.         *)
LEMMA EntriesOK ==
    ASSUME IInv
    PROVE  /\ results \in Results
           /\ \A d : MarksOf(d) \in Mark
           /\ \A k : OutcomeOf(k) \in Outcome
           /\ \A a : FinalistsOf(a) \in SUBSET scope.slugs
<1>1. results \in Results
  BY DEF IInv, Results
<1>2. /\ \A d \in DOMAIN results.marks : results.marks[d] \in Mark
      /\ \A k \in DOMAIN results.series : results.series[k] \in Outcome
      /\ \A a \in DOMAIN results.finalists :
             results.finalists[a] \in SUBSET scope.slugs
  BY <1>1, SectionEntry DEF Results
<1>3. NoMarks \in Mark /\ [winner |-> None, games |-> NoGames] \in Outcome
  BY DEF NoMarks, Mark, Outcome
<1> QED BY <1>1, <1>2, <1>3 DEF MarksOf, OutcomeOf, FinalistsOf

LEMMA SeasonInit == Init => IInv
<1> SUFFICES ASSUME Init PROVE IInv
  OBVIOUS
<1>1. results \in Results
  BY NothingRecorded DEF Init, Results
<1> QED BY <1>1, FS_EmptySet DEF Init, IInv, Results

LEMMA EditResults ==
    ASSUME IInv, Edit
    PROVE  results' \in Results /\ UNCHANGED <<scope, rows>>
<1> USE EntriesOK
<1>1. ASSUME NEW d \in scope.divisions, NEW t \in scope.names, MarkPlayoffs(d, t)
      PROVE  results' \in Results /\ UNCHANGED <<scope, rows>>
  <2> DEFINE entry == [MarksOf(d) EXCEPT !.playoffs = SymDiff(@, {t})]
  <2>1. entry \in Mark
    BY DEF Mark, SymDiff
  <2>2. Written(results.marks, d, entry) \in Section(scope.divisions, Mark)
    <3> HIDE DEF entry
    <3> QED BY <2>1, WrittenSection DEF Results
  <2>3. results' = [results EXCEPT !.marks = Written(results.marks, d, entry)]
    BY <1>1 DEF MarkPlayoffs
  <2> HIDE DEF entry
  <2> QED BY <1>1, <2>2, <2>3 DEF Results, MarkPlayoffs
<1>2. ASSUME NEW d \in scope.divisions, NEW t \in scope.names, MarkWinner(d, t)
      PROVE  results' \in Results /\ UNCHANGED <<scope, rows>>
  <2> DEFINE entry == [MarksOf(d) EXCEPT !.winner = t]
  <2>1. entry \in Mark
    BY DEF Mark
  <2>2. Written(results.marks, d, entry) \in Section(scope.divisions, Mark)
    <3> HIDE DEF entry
    <3> QED BY <2>1, WrittenSection DEF Results
  <2>3. results' = [results EXCEPT !.marks = Written(results.marks, d, entry)]
    BY <1>2 DEF MarkWinner
  <2> HIDE DEF entry
  <2> QED BY <1>2, <2>2, <2>3 DEF Results, MarkWinner
<1>3. ASSUME NEW f \in scope.trophies, NEW t \in scope.names, RecordTrophy(f, t)
      PROVE  results' \in Results /\ UNCHANGED <<scope, rows>>
  <2>1. f = "presidents" \/ f = "cup"
    BY SeasonAssumption DEF IInv
  <2>2. CASE f = "presidents"
    BY <1>3, <2>2 DEF RecordTrophy, Results
  <2>3. CASE f = "cup"
    BY <1>3, <2>3 DEF RecordTrophy, Results
  <2> QED BY <2>1, <2>2, <2>3
<1>4. ASSUME NEW k \in scope.series, NEW t \in scope.names, RecordWinner(k, t)
      PROVE  results' \in Results /\ UNCHANGED <<scope, rows>>
  <2> DEFINE entry == [OutcomeOf(k) EXCEPT !.winner = t]
  <2>1. entry \in Outcome
    BY DEF Outcome
  <2>2. Written(results.series, k, entry) \in Section(scope.series, Outcome)
    <3> HIDE DEF entry
    <3> QED BY <2>1, WrittenSection DEF Results
  <2>3. results' = [results EXCEPT !.series = Written(results.series, k, entry)]
    BY <1>4 DEF RecordWinner
  <2> HIDE DEF entry
  <2> QED BY <1>4, <2>2, <2>3 DEF Results, RecordWinner
<1>5. ASSUME NEW k \in scope.series, NEW g \in scope.games, RecordGames(k, g)
      PROVE  results' \in Results /\ UNCHANGED <<scope, rows>>
  <2> DEFINE entry == [OutcomeOf(k) EXCEPT !.games = g]
  <2>1. entry \in Outcome
    BY DEF Outcome
  <2>2. Written(results.series, k, entry) \in Section(scope.series, Outcome)
    <3> HIDE DEF entry
    <3> QED BY <2>1, WrittenSection DEF Results
  <2>3. results' = [results EXCEPT !.series = Written(results.series, k, entry)]
    BY <1>5 DEF RecordGames
  <2> HIDE DEF entry
  <2> QED BY <1>5, <2>2, <2>3 DEF Results, RecordGames
<1>6. ASSUME NEW a \in scope.awards, NEW s \in scope.slugs, RecordFinalist(a, s)
      PROVE  results' \in Results /\ UNCHANGED <<scope, rows>>
  <2> DEFINE entry == SymDiff(FinalistsOf(a), {s})
  <2>1. entry \in SUBSET scope.slugs
    BY DEF SymDiff
  <2>2. Written(results.finalists, a, entry)
            \in Section(scope.awards, SUBSET scope.slugs)
    <3> HIDE DEF entry
    <3> QED BY <2>1, WrittenSection DEF Results
  <2>3. results' = [results EXCEPT !.finalists = Written(results.finalists, a, entry)]
    BY <1>6 DEF RecordFinalist
  <2> HIDE DEF entry
  <2> QED BY <1>6, <2>2, <2>3 DEF Results, RecordFinalist
<1> QED BY <1>1, <1>2, <1>3, <1>4, <1>5, <1>6 DEF Edit

LEMMA SaveRows ==
    ASSUME IInv, NEW p \in scope.players, NEW row \in scope.rows, Save(p, row)
    PROVE  IInv'
<1>1. p \in Player
  BY SeasonAssumption DEF IInv, Player
<1>2. /\ rows' = [rows EXCEPT ![p] = Without(rows[p], row) \cup {row}]
      /\ UNCHANGED <<scope, results>>
  BY DEF Save
<1> DEFINE saved == Without(rows[p], row) \cup {row}
<1>3. saved \in SUBSET scope.rows
  BY <1>1 DEF IInv, Without
<1>4. \A r, q \in saved : r.kind = q.kind /\ r.of = q.of => r = q
  BY <1>1 DEF IInv, Without
<1>5. IsFiniteSet(saved)
  <2>1. IsFiniteSet(Without(rows[p], row))
    BY <1>1, FS_Subset DEF IInv, Without
  <2> QED BY <2>1, FS_AddElement
<1> HIDE DEF saved
<1>6. rows' = [rows EXCEPT ![p] = saved]
  BY <1>2 DEF saved
<1>7. rows' \in [Player -> SUBSET scope.rows]
  BY <1>3, <1>6 DEF IInv
<1>8. \A q \in Player : rows'[q] = IF q = p THEN saved ELSE rows[q]
  BY <1>6 DEF IInv
<1> QED BY <1>2, <1>4, <1>5, <1>7, <1>8 DEF IInv, Mark, Outcome

LEMMA SeasonStep == IInv /\ [Next]_vars => IInv'
<1> SUFFICES ASSUME IInv, [Next]_vars PROVE IInv'
  OBVIOUS
<1>1. CASE Edit
  BY <1>1, EditResults DEF IInv, Results, Mark, Outcome
<1>2. ASSUME NEW p \in scope.players, NEW row \in scope.rows, Save(p, row)
      PROVE  IInv'
  BY <1>2, SaveRows
<1>3. CASE UNCHANGED vars
  BY <1>3 DEF IInv, vars, Mark, Outcome
<1> QED BY <1>1, <1>2, <1>3 DEF Next

(* The season's inductive invariant: one row per item, finitely many, and  *)
(* only well-shaped values under each key of the results.                  *)
THEOREM SeasonInvariant == Spec => []IInv
BY SeasonInit, SeasonStep, PTL DEF Spec

(***************************************************************************)
(* Points are numbers                                                      *)
(***************************************************************************)
IsList(list) == list \in Seq(Range(list))

LEMMA Positions ==
    ASSUME NEW list, IsList(list)
    PROVE  /\ IsFiniteSet(DOMAIN list)
           /\ DOMAIN list = 1..Len(list) /\ Len(list) \in Nat
           /\ Distinct(list) \in SUBSET DOMAIN list
           /\ \A I \in SUBSET Distinct(list) : IsFiniteSet(I) /\ Cardinality(I) \in Nat
<1>1. DOMAIN list = 1..Len(list) /\ Len(list) \in Nat
  BY DEF IsList
<1>2. IsFiniteSet(DOMAIN list)
  BY <1>1, FS_Interval
<1>3. Distinct(list) \in SUBSET DOMAIN list
  BY DEF Distinct
<1>4. \A I \in SUBSET Distinct(list) : IsFiniteSet(I) /\ Cardinality(I) \in Nat
  BY <1>2, <1>3, FS_Subset, FS_CardinalityType
<1> QED BY <1>1, <1>2, <1>3, <1>4

LEMMA AwardPointsNat ==
    ASSUME NEW list, IsList(list), NEW finalists
    PROVE  AwardPoints(list, finalists) \in Nat
<1> DEFINE I == {i \in Distinct(list) : list[i] \in finalists}
<1>1. Cardinality(I) \in Nat
  BY Positions
<1> QED BY <1>1 DEF AwardPoints

LEMMA SeriesPickPointsNat ==
    ASSUME NEW res, NEW row
    PROVE  SeriesPickPoints(res, row) \in Nat
<1>1. CASE row.of[1] \in DOMAIN seriesPoints
  <2>1. \A s \in DOMAIN seriesPoints :
            seriesPoints[s].winner \in Nat /\ seriesPoints[s].exact \in Nat
    BY DEF seriesPoints
  <2> QED BY <1>1, <2>1 DEF SeriesPickPoints
<1>2. CASE row.of[1] \notin DOMAIN seriesPoints
  BY <1>2 DEF SeriesPickPoints
<1> QED BY <1>1, <1>2

LEMMA RowPointsNat ==
    ASSUME NEW res, NEW row, IsRow(row)
    PROVE  RegularPoints(res, row) \in Nat /\ PlayoffPoints(res, row) \in Nat
<1>1. IsList(row.list)
  BY DEF IsRow, IsList
<1>2. AwardPoints(row.list, RecordedAwardFinalists(res, row.of)) \in Nat
  BY <1>1, AwardPointsNat
<1>3. \A winner : TrophyPoints(row.team, winner, 20) \in Nat
  BY DEF TrophyPoints
<1>4. SeriesPickPoints(res, row) \in Nat
  BY SeriesPickPointsNat
<1> QED BY <1>2, <1>3, <1>4 DEF RegularPoints, PlayoffPoints

LEMMA DivisionPicksPointsNat ==
    ASSUME NEW list, IsList(list), NEW pick, NEW marks
    PROVE  DivisionPicksPoints(list, pick, marks) \in Nat
<1> DEFINE correctWinner == marks.winner # None /\ pick = marks.winner
           scoring == {i \in Distinct(list) :
               /\ ~(correctWinner /\ list[i] = marks.winner)
               /\ list[i] \in marks.playoffs \cup ({marks.winner} \ {None})}
<1>1. scoring \in SUBSET Distinct(list)
  OBVIOUS
<1>2. Cardinality(scoring) \in Nat
  <2> HIDE DEF scoring
  <2> QED BY <1>1, Positions
<1>3. DivisionPicksPoints(list, pick, marks) =
          (IF correctWinner THEN 15 ELSE 0) + 5 * Cardinality(scoring)
  BY DEF DivisionPicksPoints
<1> HIDE DEF scoring, correctWinner
<1> QED BY <1>2, <1>3

LEMMA DivisionRowList ==
    ASSUME NEW saved, \A r \in saved : IsRow(r), NEW kind, NEW d
    PROVE  IsList(DivisionRow(saved, kind, d).list)
<1>1. IsList(ZeroRow.list)
  BY DEF ZeroRow, IsList
<1>2. \A r \in saved : IsList(r.list)
  BY DEF IsRow, IsList
<1> QED BY <1>1, <1>2 DEF DivisionRow

(* What the picks of a division score.                                     *)
PicksOf(res, saved, d) ==
    DivisionPicksPoints(DivisionRow(saved, "division_playoff_teams", d).list,
                        DivisionRow(saved, "division_winner", d).team,
                        DivisionResult(res, d))

DivisionTerms(res, saved) == [d \in Division |-> PicksOf(res, saved, d)]
RegularTerms(res, saved) == [r \in saved |-> RegularPoints(res, r)]
PlayoffTerms(res, saved) == [r \in saved |-> PlayoffPoints(res, r)]

LEMMA TermsAreNumbers ==
    ASSUME NEW res, NEW saved, \A r \in saved : IsRow(r)
    PROVE  /\ \A d \in Division : /\ DivisionTerms(res, saved)[d] = PicksOf(res, saved, d)
                                 /\ PicksOf(res, saved, d) \in Nat
           /\ \A r \in saved : /\ RegularTerms(res, saved)[r] = RegularPoints(res, r)
                               /\ PlayoffTerms(res, saved)[r] = PlayoffPoints(res, r)
                               /\ RegularPoints(res, r) \in Nat
                               /\ PlayoffPoints(res, r) \in Nat
<1>1. \A d \in Division : PicksOf(res, saved, d) \in Nat
  BY DivisionRowList, DivisionPicksPointsNat DEF PicksOf
<1>2. \A r \in saved : RegularPoints(res, r) \in Nat /\ PlayoffPoints(res, r) \in Nat
  BY RowPointsNat
<1> QED BY <1>1, <1>2 DEF DivisionTerms, RegularTerms, PlayoffTerms

(* Points are the sums over divisions and rows of numbers.                 *)
LEMMA PointsAreSums ==
    ASSUME NEW res, NEW saved, IsFiniteSet(saved), \A r \in saved : IsRow(r)
    PROVE  /\ PlayerPoints(res, saved).regular =
                  SumFunctionOnSet(DivisionTerms(res, saved), Division)
                  + SumFunctionOnSet(RegularTerms(res, saved), saved)
           /\ PlayerPoints(res, saved).playoff =
                  SumFunctionOnSet(PlayoffTerms(res, saved), saved)
           /\ DOMAIN PlayerPoints(res, saved) = {"regular", "playoff"}
           /\ SumFunctionOnSet(DivisionTerms(res, saved), Division) \in Int
           /\ SumFunctionOnSet(RegularTerms(res, saved), saved) \in Int
           /\ SumFunctionOnSet(PlayoffTerms(res, saved), saved) \in Int
<1>1. /\ \A d \in Division : DivisionTerms(res, saved)[d] \in Int
      /\ \A r \in saved : RegularTerms(res, saved)[r] \in Int
      /\ \A r \in saved : PlayoffTerms(res, saved)[r] \in Int
  BY TermsAreNumbers
<1>2. /\ SumFunctionOnSet(DivisionTerms(res, saved), Division) \in Int
      /\ SumFunctionOnSet(RegularTerms(res, saved), saved) \in Int
      /\ SumFunctionOnSet(PlayoffTerms(res, saved), saved) \in Int
  BY <1>1, ScoringAssumption, SumInteger
<1>3. /\ DOMAIN DivisionTerms(res, saved) = Division
      /\ DOMAIN RegularTerms(res, saved) = saved
      /\ DOMAIN PlayoffTerms(res, saved) = saved
  BY DEF DivisionTerms, RegularTerms, PlayoffTerms
<1>4. PlayerPoints(res, saved) =
          [regular |-> SumFunction(DivisionTerms(res, saved))
                       + SumFunction(RegularTerms(res, saved)),
           playoff |-> SumFunction(PlayoffTerms(res, saved))]
  BY DEF PlayerPoints, DivisionsPoints, PicksOf, DivisionTerms, RegularTerms,
         PlayoffTerms
<1> QED BY <1>2, <1>3, <1>4 DEF SumFunction

LEMMA RowsOK ==
    ASSUME IInv, NEW p \in Player
    PROVE  IsFiniteSet(rows[p]) /\ \A r \in rows[p] : IsRow(r)
BY SeasonAssumption DEF IInv

LEMMA TotalInteger ==
    ASSUME IInv, NEW p \in Player
    PROVE  /\ PointsOf(p).regular \in Int /\ PointsOf(p).playoff \in Int
           /\ Total(PointsOf(p)) \in Int
<1>1. IsFiniteSet(rows[p]) /\ \A r \in rows[p] : IsRow(r)
  BY RowsOK
<1>2. PointsOf(p).regular \in Int /\ PointsOf(p).playoff \in Int
  BY <1>1, PointsAreSums DEF PointsOf
<1> QED BY <1>2 DEF Total

(***************************************************************************)
(* Sorting                                                                 *)
(***************************************************************************)

(* A strict total order on 1..n, a set of pairs, lists it from first to    *)
(* last: an element's place is one more than the number of those before it.*)
LEMMA OrderedListing ==
    ASSUME NEW n \in Nat, NEW B,
           \A i \in 1..n : <<i, i>> \notin B,
           \A i, j, k \in 1..n : <<i, j>> \in B /\ <<j, k>> \in B => <<i, k>> \in B,
           \A i, j \in 1..n : i # j => <<i, j>> \in B \/ <<j, i>> \in B
    PROVE  \E order \in Bijection(1..n, 1..n) :
               \A i, j \in 1..n : i < j => <<order[i], order[j]>> \in B
<1> DEFINE D == 1..n
           Above(i) == {k \in D : <<k, i>> \in B}
           place == [i \in D |-> Cardinality(Above(i)) + 1]
<1>1. IsFiniteSet(D) /\ Cardinality(D) = n
  BY FS_Interval
<1>2. ASSUME NEW i \in D
      PROVE  /\ IsFiniteSet(Above(i)) /\ Cardinality(Above(i)) \in 0..(n - 1)
             /\ place[i] = Cardinality(Above(i)) + 1 /\ place[i] \in D
  <2>1. IsFiniteSet(D \ {i}) /\ Cardinality(D \ {i}) = n - 1
    BY <1>1, FS_RemoveElement
  <2>2. Above(i) \in SUBSET (D \ {i})
    OBVIOUS
  <2>3. /\ IsFiniteSet(Above(i)) /\ Cardinality(Above(i)) <= Cardinality(D \ {i})
        /\ Cardinality(Above(i)) \in Nat
    <3> HIDE DEF Above, D
    <3> QED BY <2>1, <2>2, FS_Subset, FS_CardinalityType
  <2>4. place[i] = Cardinality(Above(i)) + 1
    OBVIOUS
  <2> HIDE DEF Above, place
  <2> QED BY <2>1, <2>3, <2>4
<1>3. ASSUME NEW i \in D, NEW j \in D, <<i, j>> \in B
      PROVE  place[i] < place[j]
  <2>1. Above(i) \in SUBSET Above(j) /\ i \in Above(j) /\ i \notin Above(i)
    BY <1>3
  <2>2. Cardinality(Above(i)) <= Cardinality(Above(j))
        /\ (Cardinality(Above(j)) = Cardinality(Above(i)) => Above(j) = Above(i))
    <3> HIDE DEF Above
    <3> QED BY <1>2, <2>1, FS_Subset
  <2> HIDE DEF Above, place
  <2> QED BY <1>2, <2>1, <2>2
<1>4. place \in [D -> D]
  <2>1. place = [i \in D |-> place[i]]
    OBVIOUS
  <2> HIDE DEF place
  <2> QED BY <1>2, <2>1
<1> HIDE DEF place
<1>5. ASSUME NEW i \in D, NEW j \in D, place[i] < place[j]
      PROVE  <<i, j>> \in B
  <2>1. place[i] \in Int /\ place[j] \in Int
    BY <1>4
  <2>2. i # j /\ <<j, i>> \notin B
    BY <1>3, <1>5, <2>1
  <2> QED BY <2>2
<1>6. ASSUME NEW i \in D, NEW j \in D, place[i] = place[j]
      PROVE  i = j
  <2>1. place[i] \in Int /\ place[j] \in Int
    BY <1>4
  <2>2. <<i, j>> \notin B /\ <<j, i>> \notin B
    BY <1>3, <1>6, <2>1
  <2> QED BY <2>2
<1>7. place \in Injection(D, D)
  BY <1>4, <1>6 DEF Injection, IsInjective
<1>8. place \in Surjection(D, D)
  BY <1>1, <1>7, FS_Injection
<1> DEFINE order == [k \in D |-> CHOOSE i \in D : place[i] = k]
<1>9. \A k \in D : order[k] \in D /\ place[order[k]] = k
  BY <1>8 DEF Surjection
<1>10. \A i \in D : order[place[i]] = i
  BY <1>4, <1>6, <1>9
<1>11. order = [k \in D |-> order[k]]
  OBVIOUS
<1> HIDE DEF order
<1>12. order \in [D -> D]
  BY <1>9, <1>11
<1>13. order \in Bijection(D, D)
  BY <1>4, <1>9, <1>10, <1>12
     DEF Bijection, Injection, Surjection, IsInjective
<1>14. \A i, j \in D : i < j => <<order[i], order[j]>> \in B
  BY <1>5, <1>9
<1> QED BY <1>13, <1>14

(* The order of the leaderboard is one.                                    *)
LEMMA SortedOrders ==
    ASSUME NEW totals \in [DOMAIN PlayerList -> Int]
    PROVE  /\ Sorted(totals) \in Bijection(DOMAIN PlayerList, DOMAIN PlayerList)
           /\ \A i, j \in DOMAIN PlayerList : i < j =>
                  Before(totals, Sorted(totals)[i], Sorted(totals)[j])
<1>1. PICK n \in Nat : DOMAIN PlayerList = 1..n
  BY ScoringAssumption
<1> DEFINE B == {x \in (1..n) \X (1..n) : Before(totals, x[1], x[2])}
           name(i) == NameOrder[PlayerList[i]]
<1>2. \A i \in 1..n : totals[i] \in Int /\ name(i) \in Int
  BY <1>1, ScoringAssumption
<1>3. \A i, j \in 1..n : <<i, j>> \in B <=>
          \/ totals[i] > totals[j]
          \/ /\ totals[i] = totals[j]
             /\ name(i) < name(j) \/ (name(i) = name(j) /\ i < j)
  BY DEF Before
<1> HIDE DEF B, name
<1>4. \A i \in 1..n : <<i, i>> \notin B
  BY <1>2, <1>3
<1>5. \A i, j, k \in 1..n : <<i, j>> \in B /\ <<j, k>> \in B => <<i, k>> \in B
  <2> SUFFICES ASSUME NEW i \in 1..n, NEW j \in 1..n, NEW k \in 1..n,
                      <<i, j>> \in B, <<j, k>> \in B
               PROVE  <<i, k>> \in B
    OBVIOUS
  <2>1. totals[i] >= totals[j] /\ totals[j] >= totals[k]
    BY <1>2, <1>3
  <2>2. CASE totals[i] > totals[k]
    BY <1>3, <2>2
  <2>3. CASE totals[i] = totals[k]
    <3>1. totals[i] = totals[j] /\ totals[j] = totals[k]
      BY <1>2, <2>1, <2>3
    <3>2. name(i) < name(j) \/ (name(i) = name(j) /\ i < j)
      BY <1>2, <1>3, <3>1
    <3>3. name(j) < name(k) \/ (name(j) = name(k) /\ j < k)
      BY <1>2, <1>3, <3>1
    <3>4. name(i) < name(k) \/ (name(i) = name(k) /\ i < k)
      BY <1>2, <3>2, <3>3
    <3> QED BY <1>3, <2>3, <3>4
  <2> QED BY <1>2, <2>1, <2>2, <2>3
<1>6. \A i, j \in 1..n : i # j => <<i, j>> \in B \/ <<j, i>> \in B
  <2> SUFFICES ASSUME NEW i \in 1..n, NEW j \in 1..n, i < j
               PROVE  <<i, j>> \in B \/ <<j, i>> \in B
    OBVIOUS
  <2> QED BY <1>2, <1>3
<1>7. \E order \in Bijection(1..n, 1..n) :
          \A i, j \in 1..n : i < j => <<order[i], order[j]>> \in B
  BY <1>4, <1>5, <1>6, OrderedListing
<1>8. \E order \in Bijection(1..n, 1..n) :
          \A i, j \in 1..n : i < j => Before(totals, order[i], order[j])
  BY <1>7 DEF B
<1> QED BY <1>1, <1>8 DEF Sorted

(* There is one order only: what the model chooses is what the sort of the *)
(* code returns, whatever its algorithm.                                   *)
THEOREM SortHasOneResult ==
    ASSUME NEW totals \in [DOMAIN PlayerList -> Int],
           NEW order \in Bijection(DOMAIN PlayerList, DOMAIN PlayerList),
           \A i, j \in DOMAIN PlayerList : i < j => Before(totals, order[i], order[j])
    PROVE  order = Sorted(totals)
<1>1. PICK n \in Nat : DOMAIN PlayerList = 1..n
  BY ScoringAssumption
<1>2. PICK sorted : sorted = Sorted(totals)
  OBVIOUS
<1> DEFINE G == {k \in 0..n : \A j \in 1..k : order[j] = sorted[j]}
           B(i, j) == Before(totals, i, j)
<1>3. /\ sorted \in Bijection(1..n, 1..n)
      /\ \A i, j \in 1..n : i < j => B(sorted[i], sorted[j])
  BY <1>1, <1>2, SortedOrders
<1>4. /\ order \in Bijection(1..n, 1..n)
      /\ \A i, j \in 1..n : i < j => B(order[i], order[j])
  BY <1>1
<1>5. \A i, j \in 1..n : ~(B(i, j) /\ B(j, i))
  <2>1. \A i \in 1..n : totals[i] \in Int /\ NameOrder[PlayerList[i]] \in Int
    BY <1>1, ScoringAssumption
  <2> QED BY <2>1 DEF Before
<1> HIDE DEF B
<1>6. \A f \in Bijection(1..n, 1..n) :
          /\ f \in [1..n -> 1..n]
          /\ \A i, j \in 1..n : f[i] = f[j] => i = j
          /\ \A k \in 1..n : \E i \in 1..n : f[i] = k
  BY DEF Bijection, Injection, Surjection, IsInjective
<1>7. ASSUME NEW k \in 0..(n - 1), k \in G
      PROVE  k + 1 \in G
  <2>1. order[k + 1] \in 1..n /\ sorted[k + 1] \in 1..n
    BY <1>3, <1>4, <1>6
  <2>2. PICK m \in 1..n : sorted[m] = order[k + 1]
    BY <1>3, <1>6, <2>1
  <2>3. PICK l \in 1..n : order[l] = sorted[k + 1]
    BY <1>4, <1>6, <2>1
  <2>4. k + 1 <= m /\ k + 1 <= l
    <3>1. m \in 1..k => order[m] = sorted[m]
      BY <1>7
    <3>2. l \in 1..k => order[l] = sorted[l]
      BY <1>7
    <3>3. m \notin 1..k
      BY <1>4, <1>6, <2>2, <3>1
    <3>4. l \notin 1..k
      BY <1>3, <1>6, <2>3, <3>2
    <3> QED BY <3>3, <3>4
  <2>5. k + 1 < m /\ k + 1 < l =>
            B(order[k + 1], sorted[k + 1]) /\ B(sorted[k + 1], order[k + 1])
    BY <1>3, <1>4, <2>2, <2>3
  <2>6. order[k + 1] = sorted[k + 1]
    BY <1>5, <2>2, <2>3, <2>4, <2>5, <2>1
  <2>7. \A j \in 1..(k + 1) : j \in 1..k \/ j = k + 1
    OBVIOUS
  <2> QED BY <1>7, <2>6, <2>7
<1>8. n \in G
  <2>1. 0 \in G
    OBVIOUS
  <2> HIDE DEF G
  <2> QED BY <1>7, <2>1, NumberInduction
<1> QED BY <1>2, <1>3, <1>4, <1>6, <1>8

(***************************************************************************)
(* Ranks                                                                   *)
(***************************************************************************)

(* rank gives the first m places of a list their ranks.                    *)
Ranked(rank, sorted, m) ==
    rank = [i \in 1..m |->
               IF i > 1 /\ sorted[i] = sorted[i - 1] THEN rank[i - 1] ELSE i]

LEMMA RankedAt ==
    ASSUME NEW rank, NEW sorted, NEW m \in Nat, Ranked(rank, sorted, m), NEW i \in 1..m
    PROVE  rank[i] = IF i > 1 /\ sorted[i] = sorted[i - 1] THEN rank[i - 1] ELSE i
BY DEF Ranked

LEMMA RankedExists ==
    ASSUME NEW sorted, NEW n \in Nat
    PROVE  \E rank : Ranked(rank, sorted, n)
<1> DEFINE G == {m \in Nat : \E rank : Ranked(rank, sorted, m)}
<1>1. 0 \in G
  <2>1. Ranked([i \in 1..0 |-> 0], sorted, 0)
    BY DEF Ranked
  <2> QED BY <2>1
<1>2. ASSUME NEW m \in Nat, m \in G
      PROVE  m + 1 \in G
  <2>1. PICK rank : Ranked(rank, sorted, m)
    BY <1>2
  <2> DEFINE next(i) == IF i > 1 /\ sorted[i] = sorted[i - 1] THEN rank[i - 1] ELSE i
             longer == [i \in 1..(m + 1) |-> next(i)]
  <2>2. \A i \in 1..m : rank[i] = next(i)
    BY <2>1, RankedAt
  <2>3. \A i \in 1..(m + 1) : i > 1 => i - 1 \in 1..m /\ i - 1 \in 1..(m + 1)
    OBVIOUS
  <2>4. \A i \in 1..(m + 1) : i > 1 => longer[i - 1] = rank[i - 1]
    <3> SUFFICES ASSUME NEW i \in 1..(m + 1), i > 1
                 PROVE  longer[i - 1] = rank[i - 1]
      OBVIOUS
    <3>1. longer[i - 1] = next(i - 1)
      BY <2>3
    <3>2. rank[i - 1] = next(i - 1)
      BY <2>2, <2>3
    <3> HIDE DEF longer, next
    <3> QED BY <3>1, <3>2
  <2>5. \A i \in 1..(m + 1) : longer[i] =
            IF i > 1 /\ sorted[i] = sorted[i - 1] THEN longer[i - 1] ELSE i
    <3> SUFFICES ASSUME NEW i \in 1..(m + 1)
                 PROVE  longer[i] =
                     IF i > 1 /\ sorted[i] = sorted[i - 1] THEN longer[i - 1] ELSE i
      OBVIOUS
    <3>1. longer[i] = IF i > 1 /\ sorted[i] = sorted[i - 1] THEN rank[i - 1] ELSE i
      OBVIOUS
    <3> HIDE DEF longer, next
    <3> QED BY <2>4, <3>1
  <2>6. longer = [i \in 1..(m + 1) |-> longer[i]]
    OBVIOUS
  <2> HIDE DEF longer, next
  <2>7. Ranked(longer, sorted, m + 1)
    <3> DEFINE k == [i \in 1..(m + 1) |->
                  IF i > 1 /\ sorted[i] = sorted[i - 1] THEN longer[i - 1] ELSE i]
    <3>1. \A i \in 1..(m + 1) : longer[i] = k[i]
      BY <2>5
    <3>2. k = [i \in 1..(m + 1) |-> k[i]]
      OBVIOUS
    <3>3. longer = k
      <4> HIDE DEF k
      <4> QED BY <2>6, <3>1, <3>2
    <3> QED BY <3>3 DEF Ranked
  <2> QED BY <2>7
<1>3. n \in G
  <2> HIDE DEF G
  <2> QED BY <1>1, <1>2, NumberInduction
<1> QED BY <1>3

LEMMA RanksSolve ==
    ASSUME NEW sorted, NEW n \in Nat, DOMAIN sorted = 1..n
    PROVE  Ranked(Ranks(sorted), sorted, n)
<1> DEFINE rank == CHOOSE rank : Ranked(rank, sorted, n)
<1>1. Ranked(rank, sorted, n)
  BY RankedExists
<1>2. Ranks(sorted) = rank
  BY DEF Ranks, Ranked
<1> QED BY <1>1, <1>2

(* The run of places that share a total starts at its rank.                *)
LEMMA RankStartsRun ==
    ASSUME NEW n \in Nat, NEW sorted \in [1..n -> Int],
           \A i, j \in 1..n : i < j => sorted[i] >= sorted[j],
           NEW i \in 1..n
    PROVE  /\ Ranks(sorted)[i] \in 1..i
           /\ \A k \in 1..n : sorted[k] > sorted[i] <=> k < Ranks(sorted)[i]
<1> DEFINE rank == Ranks(sorted)
           Run(m) == /\ rank[m] \in 1..m
                     /\ \A k \in 1..m : sorted[k] > sorted[m] <=> k < rank[m]
           G == {m \in 0..n : m = 0 \/ Run(m)}
<1>1. \A m \in 1..n :
          rank[m] = IF m > 1 /\ sorted[m] = sorted[m - 1] THEN rank[m - 1] ELSE m
  <2>1. DOMAIN sorted = 1..n
    OBVIOUS
  <2>2. Ranked(rank, sorted, n)
    BY <2>1, RanksSolve
  <2> HIDE DEF rank
  <2> QED BY <2>2, RankedAt
<1> HIDE DEF rank
<1>2. ASSUME NEW m \in 0..(n - 1), m \in G
      PROVE  Run(m + 1)
  <2>1. m + 1 \in 1..n /\ sorted[m + 1] \in Int
    OBVIOUS
  <2>2. CASE m > 0 /\ sorted[m + 1] = sorted[m]
    <3>1. rank[m + 1] = rank[m] /\ Run(m)
      BY <1>1, <1>2, <2>1, <2>2
    <3> QED BY <2>2, <3>1
  <2>3. CASE ~(m > 0 /\ sorted[m + 1] = sorted[m])
    <3>1. rank[m + 1] = m + 1
      BY <1>1, <2>1, <2>3
    <3>2. \A k \in 1..m : sorted[k] > sorted[m + 1]
      <4> SUFFICES ASSUME NEW k \in 1..m PROVE sorted[k] > sorted[m + 1]
        OBVIOUS
      <4>1. sorted[k] >= sorted[m] /\ sorted[m] >= sorted[m + 1]
        BY <2>1
      <4>2. sorted[m] # sorted[m + 1]
        BY <2>3
      <4>3. sorted[k] \in Int /\ sorted[m] \in Int
        BY <2>1
      <4> QED BY <2>1, <4>1, <4>2, <4>3
    <3>3. ~(sorted[m + 1] > sorted[m + 1])
      BY <2>1
    <3> QED BY <3>1, <3>2, <3>3
  <2> QED BY <2>2, <2>3
<1>3. \A m \in 0..n : m \in G
  <2>1. 0 \in G
    OBVIOUS
  <2>2. ASSUME NEW m \in 0..n
        PROVE  m \in G
    <3>1. \A k \in 0..(m - 1) : k \in G => k + 1 \in G
      BY <1>2
    <3> HIDE DEF G
    <3> QED BY <2>1, <3>1, NumberInduction
  <2> QED BY <2>2
<1>4. Run(i)
  BY <1>3
<1>5. ASSUME NEW k \in 1..n
      PROVE  sorted[k] > sorted[i] <=> k < rank[i]
  <2>1. CASE k <= i
    BY <1>4, <2>1
  <2>2. CASE k > i
    <3>1. sorted[i] >= sorted[k] /\ sorted[i] \in Int /\ sorted[k] \in Int
      BY <2>2
    <3> QED BY <1>4, <2>2, <3>1
  <2> QED BY <2>1, <2>2
<1> QED BY <1>4, <1>5 DEF rank

LEMMA BestFirst ==
    ASSUME NEW totals \in [DOMAIN PlayerList -> Int],
           NEW i \in DOMAIN PlayerList, NEW j \in DOMAIN PlayerList, i < j
    PROVE  totals[Sorted(totals)[i]] >= totals[Sorted(totals)[j]]
<1>1. Before(totals, Sorted(totals)[i], Sorted(totals)[j])
  BY SortedOrders
<1>2. Sorted(totals)[i] \in DOMAIN PlayerList /\ Sorted(totals)[j] \in DOMAIN PlayerList
  BY SortedOrders DEF Bijection, Injection
<1> QED BY <1>1, <1>2 DEF Before

(* A leaderboard over any totals is a competition ranking.                 *)
LEMMA StandingsRank ==
    ASSUME NEW totals \in [DOMAIN PlayerList -> Int]
    PROVE  LET board == Standings(totals)
               Ahead(i) == {j \in DOMAIN PlayerList : totals[j] > board[i].total}
           IN  /\ {board[i].player : i \in DOMAIN board} = Player
               /\ \A i \in DOMAIN board :
                   /\ board[i].rank = Cardinality(Ahead(i)) + 1
                   /\ board[i].leader <=>
                          Ahead(i) = {} /\ \E j \in DOMAIN board : board[j].total > 0
                   /\ \A j \in DOMAIN board : i < j => board[i].total >= board[j].total
<1> DEFINE board == Standings(totals)
           order == Sorted(totals)
           sorted == [i \in DOMAIN PlayerList |-> totals[order[i]]]
           Ahead(i) == {j \in DOMAIN PlayerList : totals[j] > board[i].total}
<1>1. PICK n \in Nat : DOMAIN PlayerList = 1..n
  BY ScoringAssumption
<1>2. order \in Bijection(1..n, 1..n)
  BY <1>1, SortedOrders
<1>3. order \in [1..n -> 1..n] /\ \A j \in 1..n : \E i \in 1..n : order[i] = j
  <2> HIDE DEF order
  <2> QED BY <1>2 DEF Bijection, Injection, Surjection
<1>4. DOMAIN board = 1..n /\ \A i \in 1..n :
          /\ board[i].player = PlayerList[order[i]]
          /\ board[i].rank = Ranks(sorted)[i]
          /\ board[i].total = sorted[i] /\ sorted[i] = totals[order[i]]
          /\ board[i].leader = (Ranks(sorted)[i] = 1 /\ totals[order[i]] > 0)
  <2> HIDE DEF order
  <2> QED BY <1>1 DEF Standings, order
<1>5. sorted \in [1..n -> Int]
  <2> HIDE DEF order
  <2> QED BY <1>1, <1>3
<1>6. \A i, j \in 1..n : i < j => sorted[i] >= sorted[j]
  BY <1>1, BestFirst
<1> HIDE DEF board, order, sorted
<1>7. {board[i].player : i \in DOMAIN board} = Player
  <2>1. Player = {PlayerList[j] : j \in 1..n}
    BY <1>1 DEF Player, Range
  <2>2. \A i \in 1..n : board[i].player \in Player
    BY <1>3, <1>4, <2>1
  <2>3. ASSUME NEW j \in 1..n
        PROVE  PlayerList[j] \in {board[i].player : i \in DOMAIN board}
    <3>1. PICK i \in 1..n : order[i] = j
      BY <1>3
    <3>2. board[i].player = PlayerList[j]
      BY <1>4, <3>1
    <3> QED BY <1>4, <3>2
  <2>4. \A player \in Player : player \in {board[i].player : i \in DOMAIN board}
    BY <2>1, <2>3
  <2>5. {board[i].player : i \in DOMAIN board} \subseteq Player
    BY <1>4, <2>2
  <2> QED BY <2>4, <2>5
<1>8. ASSUME NEW i \in 1..n
      PROVE  /\ board[i].rank = Cardinality(Ahead(i)) + 1
             /\ board[i].leader <=>
                    Ahead(i) = {} /\ \E j \in DOMAIN board : board[j].total > 0
             /\ \A j \in DOMAIN board : i < j => board[i].total >= board[j].total
  <2> DEFINE rank == Ranks(sorted)[i]
             before == 1..(rank - 1)
             place == [k \in before |-> order[k]]
  <2>1. rank \in 1..i /\ \A k \in 1..n : sorted[k] > sorted[i] <=> k < rank
    BY <1>5, <1>6, RankStartsRun
  <2> HIDE DEF rank
  <2>2. IsFiniteSet(before) /\ Cardinality(before) = rank - 1
    BY <2>1, FS_Interval
  <2>3. \A k \in before : k \in 1..n /\ sorted[k] > sorted[i]
    BY <2>1
  <2>4. \A k \in before : order[k] \in Ahead(i)
    BY <1>1, <1>3, <1>4, <2>3
  <2>5. \A j \in Ahead(i) : \E k \in before : order[k] = j
    <3> SUFFICES ASSUME NEW j \in Ahead(i)
                 PROVE  \E k \in before : order[k] = j
      OBVIOUS
    <3>1. PICK k \in 1..n : order[k] = j
      BY <1>1, <1>3
    <3>2. sorted[k] > sorted[i]
      BY <1>4, <3>1
    <3>3. k \in before
      BY <2>1, <3>2
    <3> QED BY <3>1, <3>3
  <2>6. \A k, l \in before : order[k] = order[l] => k = l
    BY <1>2, <2>3 DEF Bijection, Injection, IsInjective
  <2>7. place \in Bijection(before, Ahead(i))
    <3>1. place \in [before -> Ahead(i)] /\ \A k \in before : place[k] = order[k]
      BY <2>4
    <3> HIDE DEF place, before, Ahead
    <3> QED BY <2>5, <2>6, <3>1 DEF Bijection, Injection, Surjection, IsInjective
  <2>8. IsFiniteSet(Ahead(i)) /\ Cardinality(Ahead(i)) = rank - 1
    <3>1. ExistsBijection(before, Ahead(i))
      BY <2>7 DEF ExistsBijection
    <3> HIDE DEF before, Ahead
    <3> QED BY <2>2, <3>1, FS_Bijection
  <2>9. board[i].rank = rank
    BY <1>4 DEF rank
  <2>10. board[i].rank = Cardinality(Ahead(i)) + 1
    BY <2>1, <2>8, <2>9
  <2>11. rank = 1 <=> Ahead(i) = {}
    <3> HIDE DEF Ahead
    <3> QED BY <2>1, <2>8, FS_EmptySet
  <2>12. Ahead(i) = {} => \A j \in 1..n : board[j].total <= board[i].total
    <3> SUFFICES ASSUME NEW j \in 1..n, Ahead(i) = {}
                 PROVE  board[j].total <= board[i].total
      OBVIOUS
    <3>1. ~(totals[order[j]] > board[i].total)
      BY <1>1, <1>3
    <3>2. board[j].total = totals[order[j]] /\ board[j].total \in Int
          /\ board[i].total \in Int
      BY <1>4, <1>5
    <3> QED BY <3>1, <3>2
  <2>13. \A j \in 1..n : board[j].total \in Int
    BY <1>4, <1>5
  <2>14. board[i].leader <=> rank = 1 /\ board[i].total > 0
    BY <1>4 DEF rank
  <2>15. board[i].leader <=>
            Ahead(i) = {} /\ \E j \in DOMAIN board : board[j].total > 0
    <3> HIDE DEF Ahead
    <3> QED BY <1>4, <2>11, <2>12, <2>13, <2>14
  <2>16. \A j \in DOMAIN board : i < j => board[i].total >= board[j].total
    BY <1>4, <1>6
  <2> HIDE DEF Ahead
  <2> QED BY <2>10, <2>15, <2>16
<1> QED
  <2> HIDE DEF Ahead
  <2>1. DOMAIN board = 1..n
    BY <1>4
  <2> QED BY <1>7, <1>8, <2>1 DEF board, Ahead

(* At every moment the leaderboard lists everybody once, best first, tied  *)
(* players share a rank and the next one skips, and the leaders are those  *)
(* nobody is ahead of.                                                     *)
THEOREM LeaderboardIsFair == Spec => []RanksAreCompetition
<1>1. IInv => RanksAreCompetition
  <2> SUFFICES ASSUME IInv PROVE RanksAreCompetition
    OBVIOUS
  <2>1. \A i \in DOMAIN PlayerList : PlayerList[i] \in Player
    BY DEF Player, Range
  <2>2. Totals \in [DOMAIN PlayerList -> Int]
    BY <2>1, TotalInteger DEF Totals
  <2> QED BY <2>2, StandingsRank DEF RanksAreCompetition
<1> QED BY <1>1, SeasonInvariant, PTL

(***************************************************************************)
(* Recording more                                                          *)
(***************************************************************************)

(* new holds every value of old; it may hold more.                         *)
Grows(old, new) ==
    /\ DOMAIN old.marks \subseteq DOMAIN new.marks
    /\ \A d \in DOMAIN old.marks :
        /\ old.marks[d].playoffs \subseteq new.marks[d].playoffs
        /\ Kept(old.marks[d].winner, new.marks[d].winner)
    /\ Kept(old.presidents, new.presidents)
    /\ Kept(old.cup, new.cup)
    /\ DOMAIN old.series \subseteq DOMAIN new.series
    /\ \A k \in DOMAIN old.series :
        /\ Kept(old.series[k].winner, new.series[k].winner)
        /\ old.series[k].games \in {NoGames, new.series[k].games}
    /\ DOMAIN old.finalists \subseteq DOMAIN new.finalists
    /\ \A a \in DOMAIN old.finalists : old.finalists[a] \subseteq new.finalists[a]

(* The operator's edits take no entry out of the file.                     *)
LEMMA EntriesStay ==
    ASSUME IInv, [Next]_vars, OnlyAdds
    PROVE  Grows(results, results')
<1> DEFINE Stay == /\ DOMAIN results.marks \subseteq DOMAIN results'.marks
                   /\ DOMAIN results.series \subseteq DOMAIN results'.series
                   /\ DOMAIN results.finalists \subseteq DOMAIN results'.finalists
<1>1. Stay
  <2> USE EntriesOK DEF Results
  <2>1. ASSUME NEW section, NEW key, NEW entry
        PROVE  DOMAIN section \subseteq DOMAIN Written(section, key, entry)
    BY DEF Written
  <2>2. ASSUME NEW d, NEW t, MarkPlayoffs(d, t) \/ MarkWinner(d, t)
        PROVE  Stay
    <3>1. PICK entry : results' =
              [results EXCEPT !.marks = Written(results.marks, d, entry)]
      BY <2>2 DEF MarkPlayoffs, MarkWinner
    <3> QED BY <2>1, <3>1
  <2>3. ASSUME NEW f \in scope.trophies, NEW t, RecordTrophy(f, t)
        PROVE  Stay
    <3>1. f = "presidents" \/ f = "cup"
      BY SeasonAssumption DEF IInv
    <3> QED BY <2>3, <3>1 DEF RecordTrophy
  <2>4. ASSUME NEW k, NEW t, RecordWinner(k, t) \/ RecordGames(k, t)
        PROVE  Stay
    <3>1. PICK entry : results' =
              [results EXCEPT !.series = Written(results.series, k, entry)]
      BY <2>4 DEF RecordWinner, RecordGames
    <3> QED BY <2>1, <3>1
  <2>5. ASSUME NEW a, NEW s, RecordFinalist(a, s)
        PROVE  Stay
    <3>1. PICK entry : results' =
              [results EXCEPT !.finalists = Written(results.finalists, a, entry)]
      BY <2>5 DEF RecordFinalist
    <3> QED BY <2>1, <3>1
  <2>6. CASE UNCHANGED results
    BY <2>6
  <2> QED BY <2>2, <2>3, <2>4, <2>5, <2>6 DEF Next, Edit, Save, vars
<1> QED BY <1>1 DEF OnlyAdds, Grows

LEMMA DivisionResultGrows ==
    ASSUME NEW old, NEW new, Grows(old, new), NEW d
    PROVE  /\ DivisionResult(old, d).playoffs \subseteq DivisionResult(new, d).playoffs
           /\ Kept(DivisionResult(old, d).winner, DivisionResult(new, d).winner)
<1> DEFINE Marks(res) == IF d \in DOMAIN res.marks THEN res.marks[d] ELSE NoMarks
<1>1. /\ Marks(old).playoffs \subseteq Marks(new).playoffs
      /\ Kept(Marks(old).winner, Marks(new).winner)
  BY DEF Grows, NoMarks, Kept
<1>2. \A res :
        /\ DivisionResult(res, d).playoffs =
               {t \in Marks(res).playoffs : TeamInDivision(t, d)}
        /\ DivisionResult(res, d).winner =
               IF TeamInDivision(Marks(res).winner, d) THEN Marks(res).winner ELSE None
  BY DEF DivisionResult
<1>3. ~TeamInDivision(None, d)
  BY ScoringAssumption DEF TeamInDivision
<1> HIDE DEF Marks
<1> QED BY <1>1, <1>2, <1>3 DEF Kept

(* A correct winner's 15 points are more than the 5 they replace, and they *)
(* replace them at one place of the list only.                             *)
LEMMA DivisionPicksGrow ==
    ASSUME NEW list, IsList(list), NEW pick, NEW old, NEW new,
           old.playoffs \subseteq new.playoffs, Kept(old.winner, new.winner)
    PROVE  DivisionPicksPoints(list, pick, old) <= DivisionPicksPoints(list, pick, new)
<1> DEFINE Correct(marks) == marks.winner # None /\ pick = marks.winner
           Scored(marks) == {i \in Distinct(list) :
               /\ ~(Correct(marks) /\ list[i] = marks.winner)
               /\ list[i] \in marks.playoffs \cup ({marks.winner} \ {None})}
           winning == {i \in Distinct(list) : list[i] = new.winner}
<1>1. \A marks : DivisionPicksPoints(list, pick, marks) =
          (IF Correct(marks) THEN 15 ELSE 0) + 5 * Cardinality(Scored(marks))
  BY DEF DivisionPicksPoints
<1>2. \A marks : Scored(marks) \in SUBSET Distinct(list)
  OBVIOUS
<1>3. \A marks : IsFiniteSet(Scored(marks)) /\ Cardinality(Scored(marks)) \in Nat
  <2> HIDE DEF Scored
  <2> QED BY <1>2, Positions
<1>4. CASE old.winner # None \/ ~Correct(new)
  <2>1. Correct(old) => Correct(new)
    BY DEF Kept
  <2>2. Scored(old) \subseteq Scored(new)
    BY <1>4 DEF Kept
  <2>3. Cardinality(Scored(old)) <= Cardinality(Scored(new))
    <3> HIDE DEF Scored
    <3> QED BY <1>3, <2>2, FS_Subset
  <2> HIDE DEF Scored, Correct
  <2> QED BY <1>1, <1>3, <2>1, <2>3
<1>5. CASE old.winner = None /\ Correct(new)
  <2>1. ~Correct(old)
    BY <1>5
  <2>2. Scored(old) \subseteq Scored(new) \cup winning
    BY <1>5
  <2>3. IsFiniteSet(winning) /\ Cardinality(winning) <= 1 /\ Cardinality(winning) \in Nat
    <3>1. winning \in SUBSET Distinct(list)
      OBVIOUS
    <3>2. \A i, j \in winning : i = j
      BY Positions DEF Distinct
    <3>3. CASE winning = {}
      <4> HIDE DEF winning
      <4> QED BY <3>3, FS_EmptySet
    <3>4. CASE winning # {}
      <4>1. PICK i \in winning : TRUE
        BY <3>4
      <4>2. winning = {i}
        BY <3>2, <4>1
      <4>3. IsFiniteSet({i}) /\ Cardinality({i}) = 1
        BY FS_Singleton
      <4> HIDE DEF winning
      <4> QED BY <4>2, <4>3
    <3> QED BY <3>3, <3>4
  <2>4. Cardinality(Scored(old)) <= Cardinality(Scored(new)) + 1
    <3> HIDE DEF Scored, winning
    <3>1. /\ IsFiniteSet(Scored(new) \cup winning)
          /\ Cardinality(Scored(new) \cup winning)
                 <= Cardinality(Scored(new)) + Cardinality(winning)
          /\ Cardinality(Scored(new) \cup winning) \in Nat
      <4>1. IsFiniteSet(Scored(new) \cup winning) /\ IsFiniteSet(Scored(new) \cap winning)
        BY <1>3, <2>3, FS_Union, FS_Intersection
      <4>2. /\ Cardinality(Scored(new) \cup winning) \in Nat
            /\ Cardinality(Scored(new) \cap winning) \in Nat
        BY <4>1, FS_CardinalityType
      <4>3. Cardinality(Scored(new) \cup winning) =
                Cardinality(Scored(new)) + Cardinality(winning)
                - Cardinality(Scored(new) \cap winning)
        BY <1>3, <2>3, FS_Union
      <4> QED BY <1>3, <2>3, <4>1, <4>2, <4>3
    <3>2. Cardinality(Scored(old)) <= Cardinality(Scored(new) \cup winning)
      BY <2>2, <3>1, FS_Subset
    <3> QED BY <1>3, <2>3, <3>1, <3>2
  <2> HIDE DEF Scored, Correct
  <2> QED BY <1>1, <1>3, <1>5, <2>1, <2>4
<1> QED BY <1>4, <1>5

LEMMA TrophyPointsGrow ==
    ASSUME NEW old, NEW new, Kept(old, new), NEW pick
    PROVE  TrophyPoints(pick, KnownTeamOrEmpty(old), 20)
               <= TrophyPoints(pick, KnownTeamOrEmpty(new), 20)
<1>1. Kept(KnownTeamOrEmpty(old), KnownTeamOrEmpty(new))
  BY ScoringAssumption DEF Kept, KnownTeamOrEmpty
<1> QED BY <1>1 DEF Kept, TrophyPoints

LEMMA AwardPointsGrow ==
    ASSUME NEW list, IsList(list), NEW old, NEW new, old \subseteq new
    PROVE  AwardPoints(list, old) <= AwardPoints(list, new)
<1> DEFINE Right(finalists) == {i \in Distinct(list) : list[i] \in finalists}
<1>1. Right(old) \subseteq Right(new) /\ Right(new) \in SUBSET Distinct(list)
      /\ Right(old) \in SUBSET Distinct(list)
  OBVIOUS
<1>2. \A finalists : AwardPoints(list, finalists) = 5 * Cardinality(Right(finalists))
  BY DEF AwardPoints
<1> HIDE DEF Right
<1>3. /\ IsFiniteSet(Right(new)) /\ Cardinality(Right(new)) \in Nat
      /\ Cardinality(Right(old)) \in Nat
  BY <1>1, Positions
<1>4. Cardinality(Right(old)) <= Cardinality(Right(new))
  BY <1>1, <1>3, FS_Subset
<1> QED BY <1>2, <1>3, <1>4

LEMMA SeriesPickGrows ==
    ASSUME NEW old, NEW new, Grows(old, new), NEW row
    PROVE  SeriesPickPoints(old, row) <= SeriesPickPoints(new, row)
<1> DEFINE Hits(res) == {o \in SeriesResult(res, row.of) : o.winner = row.team}
<1>1. ASSUME NEW o \in Hits(old)
      PROVE  \E n \in Hits(new) : n.games = o.games
  <2>1. PICK k \in DOMAIN old.series :
          /\ k[1] \in DOMAIN resultRounds
          /\ <<resultRounds[k[1]], k[2]>> = row.of
          /\ SeriesOutcomeUsable(row.of, old.series[k])
          /\ o = old.series[k]
    BY DEF SeriesResult
  <2>2. /\ k \in DOMAIN new.series
        /\ new.series[k].winner = old.series[k].winner
        /\ new.series[k].games = old.series[k].games
    BY <2>1, ScoringAssumption
       DEF Grows, Kept, SeriesOutcomeUsable, ValidSeriesGames, NoGames
  <2>3. SeriesOutcomeUsable(row.of, new.series[k])
    BY <2>1, <2>2 DEF SeriesOutcomeUsable
  <2>4. new.series[k] \in SeriesResult(new, row.of)
    BY <2>1, <2>2, <2>3 DEF SeriesResult
  <2> QED BY <2>1, <2>2, <2>4
<1>2. \A s \in DOMAIN seriesPoints :
          /\ seriesPoints[s].winner \in Nat /\ seriesPoints[s].exact \in Nat
          /\ seriesPoints[s].winner <= seriesPoints[s].exact
  BY DEF seriesPoints
<1>3. \A res : SeriesPickPoints(res, row) =
          IF row.of[1] \notin DOMAIN seriesPoints \/ Hits(res) = {} THEN 0
          ELSE IF \E o \in Hits(res) : o.games = row.games
            THEN seriesPoints[row.of[1]].exact
          ELSE seriesPoints[row.of[1]].winner
  BY DEF SeriesPickPoints
<1> HIDE DEF Hits
<1> QED BY <1>1, <1>2, <1>3

LEMMA RowPointsGrow ==
    ASSUME NEW old, NEW new, Grows(old, new), NEW row, IsRow(row)
    PROVE  /\ RegularPoints(old, row) <= RegularPoints(new, row)
           /\ PlayoffPoints(old, row) <= PlayoffPoints(new, row)
<1>1. /\ TrophyPoints(row.team, KnownTeamOrEmpty(old.cup), 20)
             <= TrophyPoints(row.team, KnownTeamOrEmpty(new.cup), 20)
      /\ TrophyPoints(row.team, KnownTeamOrEmpty(old.presidents), 20)
             <= TrophyPoints(row.team, KnownTeamOrEmpty(new.presidents), 20)
  BY TrophyPointsGrow DEF Grows
<1>2. AwardPoints(row.list, RecordedAwardFinalists(old, row.of))
          <= AwardPoints(row.list, RecordedAwardFinalists(new, row.of))
  <2>1. RecordedAwardFinalists(old, row.of) \subseteq RecordedAwardFinalists(new, row.of)
    BY DEF RecordedAwardFinalists, Grows
  <2>2. IsList(row.list)
    BY DEF IsRow, IsList
  <2> QED BY <2>1, <2>2, AwardPointsGrow
<1>3. SeriesPickPoints(old, row) <= SeriesPickPoints(new, row)
  BY SeriesPickGrows
<1> QED BY <1>1, <1>2, <1>3 DEF RegularPoints, PlayoffPoints

LEMMA PlayerPointsGrow ==
    ASSUME NEW old, NEW new, Grows(old, new),
           NEW saved, IsFiniteSet(saved), \A r \in saved : IsRow(r)
    PROVE  /\ PlayerPoints(old, saved).regular <= PlayerPoints(new, saved).regular
           /\ PlayerPoints(old, saved).playoff <= PlayerPoints(new, saved).playoff
<1>1. SumFunctionOnSet(DivisionTerms(old, saved), Division)
          <= SumFunctionOnSet(DivisionTerms(new, saved), Division)
  <2>1. \A d \in Division : PicksOf(old, saved, d) <= PicksOf(new, saved, d)
    BY DivisionResultGrows, DivisionRowList, DivisionPicksGrow DEF PicksOf
  <2>2. \A d \in Division : /\ DivisionTerms(old, saved)[d] \in Int
                            /\ DivisionTerms(new, saved)[d] \in Int
                            /\ DivisionTerms(old, saved)[d] <= DivisionTerms(new, saved)[d]
    BY <2>1, TermsAreNumbers
  <2> QED BY <2>2, ScoringAssumption, SumMonotone
<1>2. SumFunctionOnSet(RegularTerms(old, saved), saved)
          <= SumFunctionOnSet(RegularTerms(new, saved), saved)
  <2>1. \A r \in saved : /\ RegularTerms(old, saved)[r] \in Int
                         /\ RegularTerms(new, saved)[r] \in Int
                         /\ RegularTerms(old, saved)[r] <= RegularTerms(new, saved)[r]
    BY TermsAreNumbers, RowPointsGrow
  <2> QED BY <2>1, SumMonotone
<1>3. SumFunctionOnSet(PlayoffTerms(old, saved), saved)
          <= SumFunctionOnSet(PlayoffTerms(new, saved), saved)
  <2>1. \A r \in saved : /\ PlayoffTerms(old, saved)[r] \in Int
                         /\ PlayoffTerms(new, saved)[r] \in Int
                         /\ PlayoffTerms(old, saved)[r] <= PlayoffTerms(new, saved)[r]
    BY TermsAreNumbers, RowPointsGrow
  <2> QED BY <2>1, SumMonotone
<1> QED BY <1>1, <1>2, <1>3, PointsAreSums

(* Recording a further result never takes points away from anybody.        *)
THEOREM RecordingIsAGain == Spec => RecordingNeverTakesAway
<1>1. ASSUME IInv, [Next]_vars, OnlyAdds, NEW p \in scope.players
      PROVE  LET old == PointsOf(p)
                 new == PointsOf(p)'
             IN  old.regular <= new.regular /\ old.playoff <= new.playoff
  <2>1. Grows(results, results')
    BY <1>1, EntriesStay
  <2>2. IsFiniteSet(rows[p]) /\ \A r \in rows[p] : IsRow(r)
    <3>1. p \in Player
      BY <1>1, SeasonAssumption DEF IInv, Player
    <3> QED BY <1>1, <3>1, RowsOK
  <2>3. rows' = rows
    BY <1>1 DEF OnlyAdds
  <2>4. PointsOf(p) = PlayerPoints(results, rows[p])
        /\ PointsOf(p)' = PlayerPoints(results', rows[p])
    BY <2>3 DEF PointsOf
  <2> QED BY <2>1, <2>2, <2>4, PlayerPointsGrow
<1>2. IInv /\ [Next]_vars =>
        [OnlyAdds =>
           \A p \in scope.players :
             LET old == PointsOf(p)
                 new == PointsOf(p)'
             IN  old.regular <= new.regular /\ old.playoff <= new.playoff]_vars
  BY <1>1
<1> QED BY <1>2, SeasonInvariant, PTL DEF Spec, RecordingNeverTakesAway

(***************************************************************************)
(* What the startup warnings name                                          *)
(***************************************************************************)
LEMMA MarkWarnings ==
    ASSUME NEW res, NEW x
    PROVE  x \in TeamMarkProblems(res) <=>
             \/ \E d \in DOMAIN res.marks \ Division : x = <<"marks", d>>
             \/ \E d \in DOMAIN res.marks \cap Division :
                 \/ \E t \in res.marks[d].playoffs :
                     DivisionTeamProblem(t, d) /\ x = <<"playoffs", d, t>>
                 \/ DivisionTeamProblem(res.marks[d].winner, d) /\ x = <<"winner", d>>
BY DEF TeamMarkProblems

LEMMA TrophyWarnings ==
    ASSUME NEW res, NEW x
    PROVE  x \in TrophyProblems(res) <=>
             \E f \in {"presidents", "cup"} : res[f] \notin Team \cup {None} /\ x = <<f>>
BY DEF TrophyProblems

SeriesOf(k) == <<resultRounds[k[1]], k[2]>>

LEMMA SeriesWarnings ==
    ASSUME NEW res
    PROVE  /\ \A x \in SeriesProblems(res) :
                  x[1] \in {"round", "series", "seriesWinner", "games"}
           /\ \A k \in DOMAIN res.series :
               /\ <<"round", k[1]>> \in SeriesProblems(res) <=>
                      k[1] \notin DOMAIN resultRounds
               /\ <<"series", k>> \in SeriesProblems(res) <=>
                      k[1] \in DOMAIN resultRounds /\ SeriesOf(k) \notin DOMAIN Matchups
               /\ <<"seriesWinner", k>> \in SeriesProblems(res) <=>
                      /\ k[1] \in DOMAIN resultRounds
                      /\ WinnerProblem(SeriesOf(k), res.series[k].winner)
               /\ <<"games", k>> \in SeriesProblems(res) <=>
                      /\ k[1] \in DOMAIN resultRounds
                      /\ res.series[k].games # NoGames
                      /\ ~ValidSeriesGames(res.series[k].games)
<1> DEFINE known == {k \in DOMAIN res.series : k[1] \in DOMAIN resultRounds}
           rounds == {<<"round", k[1]>> : k \in DOMAIN res.series \ known}
           unmatched == {k \in known : SeriesOf(k) \notin DOMAIN Matchups}
           lost == {k \in known : WinnerProblem(SeriesOf(k), res.series[k].winner)}
           long == {k \in known : /\ res.series[k].games # NoGames
                                  /\ ~ValidSeriesGames(res.series[k].games)}
<1>1. SeriesProblems(res) =
          rounds \cup {<<"series", k>> : k \in unmatched} \cup
          {<<"seriesWinner", k>> : k \in lost} \cup {<<"games", k>> : k \in long}
  BY DEF SeriesProblems, SeriesOf
<1>2. \A x : x \in rounds <=> \E k \in DOMAIN res.series \ known : x = <<"round", k[1]>>
  OBVIOUS
<1>3. known \subseteq DOMAIN res.series
      /\ \A k \in DOMAIN res.series : k \in known <=> k[1] \in DOMAIN resultRounds
  OBVIOUS
<1>4. \A k \in DOMAIN res.series :
          /\ k \in unmatched <=> k \in known /\ SeriesOf(k) \notin DOMAIN Matchups
          /\ k \in lost <=>
                 k \in known /\ WinnerProblem(SeriesOf(k), res.series[k].winner)
          /\ k \in long <=> /\ k \in known /\ res.series[k].games # NoGames
                            /\ ~ValidSeriesGames(res.series[k].games)
  BY <1>3
<1>5. \A k \in DOMAIN res.series :
          <<"round", k[1]>> \in rounds <=> k[1] \notin DOMAIN resultRounds
  BY <1>2, <1>3
<1> HIDE DEF rounds, unmatched, lost, long
<1>6. \A k \in DOMAIN res.series :
          /\ <<"round", k[1]>> \in SeriesProblems(res) <=> <<"round", k[1]>> \in rounds
          /\ <<"series", k>> \in SeriesProblems(res) <=> k \in unmatched
          /\ <<"seriesWinner", k>> \in SeriesProblems(res) <=> k \in lost
          /\ <<"games", k>> \in SeriesProblems(res) <=> k \in long
  BY <1>1, <1>2
<1>7. \A x \in SeriesProblems(res) :
          x[1] \in {"round", "series", "seriesWinner", "games"}
  BY <1>1, <1>2
<1> HIDE DEF known
<1> QED BY <1>3, <1>4, <1>5, <1>6, <1>7

LEMMA AwardWarnings ==
    ASSUME NEW res, NEW x
    PROVE  x \in AwardProblems(res) <=>
             \/ \E a \in DOMAIN res.finalists \ Award : x = <<"award", a>>
             \/ \E a \in DOMAIN res.finalists \cap Award :
                    \E s \in res.finalists[a] \ Slug : x = <<"slug", a, s>>
BY DEF AwardProblems

(* Every warning says by its first word which entries it is about.         *)
LEMMA WarningTags ==
    ASSUME NEW res
    PROVE  /\ \A x \in TeamMarkProblems(res) : x[1] \in {"marks", "playoffs", "winner"}
           /\ \A x \in TrophyProblems(res) : x[1] \in {"presidents", "cup"}
           /\ \A x \in SeriesProblems(res) :
                  x[1] \in {"round", "series", "seriesWinner", "games"}
           /\ \A x \in AwardProblems(res) : x[1] \in {"award", "slug"}
<1>1. \A x \in TeamMarkProblems(res) : x[1] \in {"marks", "playoffs", "winner"}
  BY MarkWarnings
<1>2. \A x \in TrophyProblems(res) : x[1] \in {"presidents", "cup"}
  BY TrophyWarnings
<1>3. \A x \in SeriesProblems(res) :
          x[1] \in {"round", "series", "seriesWinner", "games"}
  BY SeriesWarnings
<1>4. \A x \in AwardProblems(res) : x[1] \in {"award", "slug"}
  BY AwardWarnings
<1> QED BY <1>1, <1>2, <1>3, <1>4

(* No warning names a mark of a division exactly when it counts.           *)
LEMMA MarksNotWarned ==
    ASSUME NEW res, NEW d \in Division
    PROVE  /\ <<"marks", d>> \notin ResultProblems(res)
           /\ d \in DOMAIN res.marks =>
               /\ <<"winner", d>> \in ResultProblems(res) <=>
                      DivisionTeamProblem(res.marks[d].winner, d)
               /\ \A t : <<"playoffs", d, t>> \in ResultProblems(res) <=>
                      t \in res.marks[d].playoffs /\ DivisionTeamProblem(t, d)
<1>1. \A x : x[1] \in {"marks", "winner", "playoffs"} =>
          (x \in ResultProblems(res) <=> x \in TeamMarkProblems(res))
  BY WarningTags DEF ResultProblems
<1>2. \A t : /\ <<"marks", d>>[1] = "marks" /\ <<"winner", d>>[1] = "winner"
             /\ <<"playoffs", d, t>>[1] = "playoffs"
  OBVIOUS
<1>3. <<"marks", d>> \notin TeamMarkProblems(res)
  BY MarkWarnings
<1>4. ASSUME d \in DOMAIN res.marks
      PROVE  <<"winner", d>> \in TeamMarkProblems(res) <=>
                 DivisionTeamProblem(res.marks[d].winner, d)
  BY <1>4, MarkWarnings
<1>5. ASSUME d \in DOMAIN res.marks, NEW t
      PROVE  <<"playoffs", d, t>> \in TeamMarkProblems(res) <=>
                 t \in res.marks[d].playoffs /\ DivisionTeamProblem(t, d)
  BY <1>5, MarkWarnings
<1> QED BY <1>1, <1>2, <1>3, <1>4, <1>5

LEMMA TrophyNotWarned ==
    ASSUME NEW res, NEW f \in {"presidents", "cup"}
    PROVE  <<f>> \in ResultProblems(res) <=> res[f] \notin Team \cup {None}
<1>1. \A x : x[1] \in {"presidents", "cup"} =>
          (x \in ResultProblems(res) <=> x \in TrophyProblems(res))
  BY WarningTags DEF ResultProblems
<1>2. <<f>>[1] = f
  OBVIOUS
<1> QED BY <1>1, <1>2, TrophyWarnings

(* A series no warning names, both of its values recorded, is a usable one.*)
LEMMA SeriesNotWarned ==
    ASSUME NEW res, NEW k \in DOMAIN res.series
    PROVE  LET outcome == res.series[k]
               series == SeriesOf(k)
           IN  (/\ outcome.winner # None /\ outcome.games # NoGames
                /\ {<<"round", k[1]>>, <<"series", k>>, <<"seriesWinner", k>>,
                    <<"games", k>>} \cap ResultProblems(res) = {})
               <=> k[1] \in DOMAIN resultRounds /\ SeriesOutcomeUsable(series, outcome)
<1> DEFINE outcome == res.series[k]
           series == SeriesOf(k)
           known == k[1] \in DOMAIN resultRounds
<1>1. \A x : x[1] \in {"round", "series", "seriesWinner", "games"} =>
          (x \in ResultProblems(res) <=> x \in SeriesProblems(res))
  BY WarningTags DEF ResultProblems
<1>2. /\ <<"round", k[1]>>[1] = "round" /\ <<"series", k>>[1] = "series"
      /\ <<"seriesWinner", k>>[1] = "seriesWinner" /\ <<"games", k>>[1] = "games"
  OBVIOUS
<1>3. <<"round", k[1]>> \in SeriesProblems(res) <=> ~known
  BY SeriesWarnings
<1>4. <<"series", k>> \in SeriesProblems(res) <=> known /\ series \notin DOMAIN Matchups
  BY SeriesWarnings
<1>5. <<"seriesWinner", k>> \in SeriesProblems(res) <=>
          known /\ WinnerProblem(series, outcome.winner)
  BY SeriesWarnings
<1>6. <<"games", k>> \in SeriesProblems(res) <=>
          known /\ outcome.games # NoGames /\ ~ValidSeriesGames(outcome.games)
  BY SeriesWarnings
<1>7. {<<"round", k[1]>>, <<"series", k>>, <<"seriesWinner", k>>, <<"games", k>>}
          \cap ResultProblems(res) = {}
      <=> /\ known /\ series \in DOMAIN Matchups
          /\ ~WinnerProblem(series, outcome.winner)
          /\ outcome.games = NoGames \/ ValidSeriesGames(outcome.games)
  <2> HIDE DEF series, outcome, known
  <2> QED BY <1>1, <1>2, <1>3, <1>4, <1>5, <1>6
<1>8. NoGames \notin 4..7 /\ None \notin Team
  BY ScoringAssumption DEF NoGames
<1> QED BY <1>7, <1>8 DEF WinnerProblem, SeriesOutcomeUsable, ValidSeriesGames

LEMMA AwardNotWarned ==
    ASSUME NEW res, NEW a, NEW s
    PROVE  s \in RecordedAwardFinalists(res, a) <=>
             /\ {<<"award", a>>, <<"slug", a, s>>} \cap ResultProblems(res) = {}
             /\ a \in DOMAIN res.finalists
             /\ s \in res.finalists[a]
<1>1. \A x : x[1] \in {"award", "slug"} =>
          (x \in ResultProblems(res) <=> x \in AwardProblems(res))
  BY WarningTags DEF ResultProblems
<1>2. <<"award", a>>[1] = "award" /\ <<"slug", a, s>>[1] = "slug"
  OBVIOUS
<1>3. <<"award", a>> \in AwardProblems(res) <=> a \in DOMAIN res.finalists \ Award
  BY AwardWarnings
<1>4. <<"slug", a, s>> \in AwardProblems(res) <=>
          a \in DOMAIN res.finalists \cap Award /\ s \in res.finalists[a] \ Slug
  BY AwardWarnings
<1>5. {<<"award", a>>, <<"slug", a, s>>} \cap ResultProblems(res) = {} <=>
          /\ a \notin DOMAIN res.finalists \ Award
          /\ ~(a \in DOMAIN res.finalists \cap Award /\ s \in res.finalists[a] \ Slug)
  BY <1>1, <1>2, <1>3, <1>4
<1> QED BY <1>5 DEF RecordedAwardFinalists

(***************************************************************************)
(* What a list holds                                                       *)
(***************************************************************************)
Seen(list) == {list[i] : i \in DOMAIN list}

LEMMA FirstSeen ==
    ASSUME NEW list, IsList(list), NEW t \in Seen(list), t # None
    PROVE  \E i \in Distinct(list) : list[i] = t
<1>1. PICK n \in Nat : DOMAIN list = 1..n
  BY Positions
<1> DEFINE Some == \E i \in Distinct(list) : list[i] = t
           G == {m \in 0..n : (\E i \in 1..m : list[i] = t) => Some}
<1>2. 0 \in G
  OBVIOUS
<1>3. ASSUME NEW m \in 0..(n - 1), m \in G
      PROVE  m + 1 \in G
  <2>1. CASE \E i \in 1..m : list[i] = t
    BY <1>3, <2>1
  <2>2. CASE /\ \A i \in 1..m : list[i] # t
             /\ list[m + 1] = t
    <3>1. m + 1 \in Distinct(list)
      BY <1>1, <2>2 DEF Distinct
    <3> QED BY <2>2, <3>1
  <2>3. CASE \A i \in 1..(m + 1) : list[i] # t
    BY <2>3
  <2> QED BY <2>1, <2>2, <2>3
<1>4. n \in G
  <2> HIDE DEF G
  <2> QED BY <1>2, <1>3, NumberInduction
<1> QED BY <1>1, <1>4 DEF Seen

(* Counting a list's distinct entries counts the values it holds.          *)
LEMMA CountSeen ==
    ASSUME NEW list, IsList(list), NEW Q, None \notin Q
    PROVE  /\ IsFiniteSet(Q \cap Seen(list))
           /\ Cardinality(Q \cap Seen(list)) \in Nat
           /\ Cardinality({i \in Distinct(list) : list[i] \in Q}) =
                  Cardinality(Q \cap Seen(list))
<1> DEFINE I == {i \in Distinct(list) : list[i] \in Q}
           S == Q \cap Seen(list)
           at == [i \in I |-> list[i]]
<1>1. IsFiniteSet(I) /\ Cardinality(I) \in Nat
  BY Positions
<1>2. at \in [I -> S] /\ \A i \in I : at[i] = list[i]
  BY DEF Distinct, Seen
<1>3. \A i, j \in I : list[i] = list[j] => i = j
  BY Positions DEF Distinct
<1>4. \A t \in S : \E i \in I : list[i] = t
  BY FirstSeen
<1>5. ExistsBijection(I, S)
  <2> HIDE DEF I, S, at
  <2>1. at \in Bijection(I, S)
    BY <1>2, <1>3, <1>4 DEF Bijection, Injection, Surjection, IsInjective
  <2> QED BY <2>1 DEF ExistsBijection
<1>6. IsFiniteSet(S) /\ Cardinality(S) = Cardinality(I)
  <2> HIDE DEF I, S
  <2> QED BY <1>1, <1>5, FS_Bijection
<1> QED BY <1>1, <1>6

(***************************************************************************)
(* Divisions                                                               *)
(***************************************************************************)
Names == scope.names \ {None}

LEMMA NamesFinite == IInv => IsFiniteSet(Names)
BY SeasonAssumption, FS_Subset DEF IInv, Names

(* Of a division's marks, the accessors drop what the warnings name.       *)
LEMMA MarksFollowRules ==
    ASSUME IInv, NEW d \in Division, NEW t, t # None
    PROVE  LET warned == ResultProblems(results)
               marks == DivisionResult(results, d)
           IN  /\ Won(warned, d, t) <=> t = marks.winner
               /\ MadePlayoffs(warned, d, t) <=> t = marks.winner \/ t \in marks.playoffs
<1> DEFINE warned == ResultProblems(results)
           marks == DivisionResult(results, d)
<1>1. /\ marks.playoffs = {u \in MarksOf(d).playoffs : TeamInDivision(u, d)}
      /\ marks.winner = IF TeamInDivision(MarksOf(d).winner, d) THEN MarksOf(d).winner
                        ELSE None
  BY DEF DivisionResult, MarksOf
<1>2. d \notin DOMAIN results.marks =>
          MarksOf(d).winner = None /\ MarksOf(d).playoffs = {}
  BY DEF MarksOf, NoMarks
<1>3. d \in DOMAIN results.marks => MarksOf(d) = results.marks[d]
  BY DEF MarksOf
<1>4. <<"marks", d>> \notin warned
  BY MarksNotWarned
<1>5. t = MarksOf(d).winner => (<<"winner", d>> \in warned <=> ~TeamInDivision(t, d))
  BY <1>2, <1>3, MarksNotWarned DEF DivisionTeamProblem
<1>6. t \in MarksOf(d).playoffs =>
          (<<"playoffs", d, t>> \in warned <=> ~TeamInDivision(t, d))
  BY <1>2, <1>3, MarksNotWarned DEF DivisionTeamProblem
<1> HIDE DEF warned, marks
<1>7. Won(warned, d, t) <=> t = marks.winner
  BY <1>1, <1>4, <1>5 DEF Won
<1>8. MadePlayoffs(warned, d, t) <=> t = marks.winner \/ t \in marks.playoffs
  BY <1>1, <1>4, <1>6, <1>7 DEF MadePlayoffs
<1> QED BY <1>7, <1>8 DEF warned, marks

(* The one row of a kind for a division holds what was picked.             *)
LEMMA DivisionPicked ==
    ASSUME IInv, NEW p \in Player, NEW d, NEW t, t # None
    PROVE  /\ Picked(p, "division_winner", d, t) <=>
                  t = DivisionRow(rows[p], "division_winner", d).team
           /\ Picked(p, "division_playoff_teams", d, t) <=>
                  t \in Seen(DivisionRow(rows[p], "division_playoff_teams", d).list)
<1> DEFINE found(kind) == {r \in rows[p] : r.kind = kind /\ r.of = d}
           row(kind) == DivisionRow(rows[p], kind, d)
<1>1. \A r \in rows[p] : IsRow(r)
  BY RowsOK
<1>2. \A kind : found(kind) = {} \/ found(kind) = {row(kind)}
  <2>1. \A kind : \A r, q \in found(kind) : r = q
    BY DEF IInv
  <2>2. \A kind : found(kind) # {} => row(kind) \in found(kind)
    BY DEF DivisionRow
  <2> HIDE DEF found, row
  <2> QED BY <2>1, <2>2
<1>3. \A kind : found(kind) = {} => row(kind).team = None /\ Seen(row(kind).list) = {}
  <2>1. Seen(<<>>) = {}
    BY DEF Seen
  <2> QED BY <2>1 DEF DivisionRow, ZeroRow
<1>4. \A kind : Picked(p, kind, d, t) <=>
          \E r \in found(kind) : t = r.team \/ t \in Seen(r.list)
  BY DEF Picked, Seen
<1>5. \A r \in found("division_winner") : r.list = <<>>
  BY <1>1 DEF IsRow
<1>6. \A r \in found("division_playoff_teams") : r.team = None
  BY <1>1 DEF IsRow
<1>7. Seen(<<>>) = {}
  BY DEF Seen
<1> HIDE DEF found, row
<1>8. Picked(p, "division_winner", d, t) <=> t = row("division_winner").team
  BY <1>2, <1>3, <1>4, <1>5, <1>7
<1>9. Picked(p, "division_playoff_teams", d, t) <=>
          t \in Seen(row("division_playoff_teams").list)
  BY <1>2, <1>3, <1>4, <1>6
<1> QED BY <1>8, <1>9 DEF row

(* What a division's picks score is what its teams give by the rules.      *)
LEMMA DivisionFollowsRules ==
    ASSUME IInv, NEW p \in Player, NEW d \in Division, NEW V,
           \A t \in Names : V[t] = MarkValue(ResultProblems(results), p, d, t)
    PROVE  PicksOf(results, rows[p], d) = SumFunctionOnSet(V, Names)
<1> DEFINE list == DivisionRow(rows[p], "division_playoff_teams", d).list
           pick == DivisionRow(rows[p], "division_winner", d).team
           marks == DivisionResult(results, d)
           correct == marks.winner # None /\ pick = marks.winner
           Q == {t \in Names : /\ ~(correct /\ t = marks.winner)
                               /\ t = marks.winner \/ t \in marks.playoffs}
           A == [t \in Names |-> IF correct /\ t = marks.winner THEN 15 ELSE 0]
           B == [t \in Names |-> IF t \in Q \cap Seen(list) THEN 5 ELSE 0]
<1>1. IsFiniteSet(Names) /\ \A t \in Names : t # None
  BY NamesFinite DEF Names
<1>2. IsList(list)
  BY RowsOK, DivisionRowList
<1>3. \A t \in Names : V[t] = A[t] + B[t] /\ A[t] \in Int /\ B[t] \in Int
  <2> SUFFICES ASSUME NEW t \in Names
               PROVE  V[t] = A[t] + B[t] /\ A[t] \in Int /\ B[t] \in Int
    OBVIOUS
  <2>1. V[t] = IF t = marks.winner /\ t = pick THEN 15
               ELSE IF (t = marks.winner \/ t \in marks.playoffs) /\ t \in Seen(list)
                 THEN 5
               ELSE 0
    BY <1>1, MarksFollowRules, DivisionPicked DEF MarkValue
  <2>2. A[t] = IF correct /\ t = marks.winner THEN 15 ELSE 0
    OBVIOUS
  <2>3. B[t] = IF t \in Q \cap Seen(list) THEN 5 ELSE 0
    OBVIOUS
  <2>4. t \in Q <=> /\ ~(correct /\ t = marks.winner)
                    /\ t = marks.winner \/ t \in marks.playoffs
    OBVIOUS
  <2>5. t # None
    BY <1>1
  <2> HIDE DEF A, B, Q, list, pick, marks
  <2> QED BY <2>1, <2>2, <2>3, <2>4, <2>5
<1>4. SumFunctionOnSet(V, Names) = SumFunctionOnSet(A, Names) + SumFunctionOnSet(B, Names)
  <2> HIDE DEF A, B
  <2> QED BY <1>1, <1>3, SumPlus
<1>5. marks.winner \in Names \cup {None} /\ marks.playoffs \subseteq Names
  <2>1. MarksOf(d) \in Mark
    BY EntriesOK
  <2>2. /\ marks.playoffs = {u \in MarksOf(d).playoffs : TeamInDivision(u, d)}
        /\ marks.winner = IF TeamInDivision(MarksOf(d).winner, d) THEN MarksOf(d).winner
                          ELSE None
    BY DEF DivisionResult, MarksOf
  <2>3. \A u : TeamInDivision(u, d) => u # None
    BY ScoringAssumption DEF TeamInDivision
  <2> HIDE DEF marks
  <2> QED BY <2>1, <2>2, <2>3 DEF Mark, Names
<1>6. SumFunctionOnSet(A, Names) = IF correct THEN 15 ELSE 0
  <2>1. CASE correct
    <3>1. marks.winner \in Names /\ A[marks.winner] = 15
      BY <1>5, <2>1
    <3>2. \A t \in Names \ {marks.winner} : A[t] = 0
      OBVIOUS
    <3>3. SumFunctionOnSet(A, Names) = A[marks.winner]
      <4> HIDE DEF A, marks
      <4> QED BY <1>1, <3>1, <3>2, SumSingle
    <3> HIDE DEF A, marks
    <3> QED BY <2>1, <3>1, <3>3
  <2>2. CASE ~correct
    <3>1. \A t \in Names : A[t] = 0
      BY <2>2
    <3> HIDE DEF A, correct
    <3> QED BY <1>1, <2>2, <3>1, SumZero
  <2> QED BY <2>1, <2>2
<1>7. SumFunctionOnSet(B, Names) = 5 * Cardinality(Q \cap Seen(list))
  <2>1. Q \cap Seen(list) \in SUBSET Names
    OBVIOUS
  <2>2. \A t \in Names : B[t] = IF t \in Q \cap Seen(list) THEN 5 ELSE 0
    OBVIOUS
  <2> HIDE DEF B, Q, list
  <2> QED BY <1>1, <2>1, <2>2, SumCounts
<1>8. PicksOf(results, rows[p], d) =
          (IF correct THEN 15 ELSE 0)
          + 5 * Cardinality({i \in Distinct(list) : list[i] \in Q})
  <2> DEFINE scoring == {i \in Distinct(list) :
                 /\ ~(correct /\ list[i] = marks.winner)
                 /\ list[i] \in marks.playoffs \cup ({marks.winner} \ {None})}
  <2>1. PicksOf(results, rows[p], d) =
            (IF correct THEN 15 ELSE 0) + 5 * Cardinality(scoring)
    BY DEF PicksOf, DivisionPicksPoints
  <2>2. scoring = {i \in Distinct(list) : list[i] \in Q}
    <3>1. \A i \in Distinct(list) : list[i] # None
      BY DEF Distinct
    <3>2. \A i \in Distinct(list) :
              /\ i \in scoring <=>
                    /\ ~(correct /\ list[i] = marks.winner)
                    /\ list[i] \in marks.playoffs \/ list[i] = marks.winner
              /\ list[i] \in Q <=>
                    /\ list[i] \in Names
                    /\ ~(correct /\ list[i] = marks.winner)
                    /\ list[i] = marks.winner \/ list[i] \in marks.playoffs
      BY <3>1
    <3>3. \A i \in Distinct(list) : i \in scoring <=> list[i] \in Q
      <4> HIDE DEF scoring, Q, marks, correct, list
      <4> QED BY <1>5, <3>1, <3>2
    <3>4. scoring \subseteq Distinct(list)
      OBVIOUS
    <3> HIDE DEF scoring, Q, list
    <3> QED BY <3>3, <3>4
  <2> HIDE DEF scoring, Q, list, correct
  <2> QED BY <2>1, <2>2
<1>9. Cardinality({i \in Distinct(list) : list[i] \in Q}) = Cardinality(Q \cap Seen(list))
  <2>1. None \notin Q
    BY <1>1
  <2> HIDE DEF Q, list
  <2> QED BY <1>2, <2>1, CountSeen
<1> HIDE DEF A, B, Q, list, correct
<1> QED BY <1>4, <1>6, <1>7, <1>8, <1>9

(***************************************************************************)
(* Trophies                                                                *)
(***************************************************************************)
Trophies(p, kind, f) ==
    {t \in Names : Holds(ResultProblems(results), f, t) /\ Picked(p, kind, None, t)}

LEMMA TrophyFollowsRules ==
    ASSUME IInv, NEW p \in Player, NEW f \in {"presidents", "cup"},
           NEW kind \in {"presidents", "cup", "playoffcup"}, NEW F,
           \A r \in rows[p] : F[r] =
               IF r.kind = kind THEN TrophyPoints(r.team, KnownTeamOrEmpty(results[f]), 20)
               ELSE 0
    PROVE  /\ Cardinality(Trophies(p, kind, f)) \in Nat
           /\ SumFunctionOnSet(F, rows[p]) = 20 * Cardinality(Trophies(p, kind, f))
<1> DEFINE winner == KnownTeamOrEmpty(results[f])
           right == {r \in rows[p] : r.kind = kind /\ r.team = winner /\ winner # None}
           T == Trophies(p, kind, f)
<1>1. IsFiniteSet(rows[p]) /\ \A r \in rows[p] : IsRow(r)
  BY RowsOK
<1>2. results[f] \in scope.names \cup {None}
  <2>1. f = "presidents" \/ f = "cup"
    OBVIOUS
  <2> QED BY <2>1 DEF IInv
<1>3. winner = (IF results[f] \in Team THEN results[f] ELSE None)
      /\ (winner # None => winner \in Names)
  BY <1>2 DEF KnownTeamOrEmpty, Names
<1>4. \A t \in Names : Holds(ResultProblems(results), f, t) <=> t = winner
  <2>1. <<f>> \in ResultProblems(results) <=> results[f] \notin Team \cup {None}
    BY TrophyNotWarned
  <2>2. None \notin Team /\ \A t \in Names : t # None
    BY ScoringAssumption DEF Names
  <2> HIDE DEF winner
  <2> QED BY <1>3, <2>1, <2>2 DEF Holds
<1>5. \A t \in Names : Picked(p, kind, None, t) <=>
          \E r \in rows[p] : r.kind = kind /\ r.team = t
  <2>1. \A r \in rows[p] : r.kind = kind => r.of = None /\ r.list = <<>>
    BY <1>1 DEF IsRow
  <2>2. DOMAIN <<>> = {}
    OBVIOUS
  <2> QED BY <2>1, <2>2 DEF Picked
<1>6. \A r, q \in right : r = q
  BY <1>1 DEF IsRow, IInv
<1>7. \A t : t \in T <=> t \in Names /\ t = winner
                            /\ \E r \in rows[p] : r.kind = kind /\ r.team = t
  <2> HIDE DEF winner
  <2> QED BY <1>4, <1>5 DEF Trophies
<1>8. \A r \in rows[p] : F[r] = IF r \in right THEN 20 ELSE 0
  BY DEF TrophyPoints
<1>9. \A t : t \in T <=> t = winner /\ right # {}
  <2>1. \A t \in Names : t # None
    BY DEF Names
  <2>2. right # {} <=>
            winner # None /\ \E r \in rows[p] : r.kind = kind /\ r.team = winner
    OBVIOUS
  <2> HIDE DEF winner, right, T
  <2> QED BY <1>3, <1>7, <2>1, <2>2
<1>10. right \in SUBSET rows[p]
  OBVIOUS
<1> HIDE DEF right, winner, T
<1>11. SumFunctionOnSet(F, rows[p]) = 20 * Cardinality(right)
  BY <1>1, <1>8, <1>10, SumCounts
<1>12. Cardinality(T) \in Nat /\ Cardinality(T) = Cardinality(right)
  <2>1. CASE right = {}
    <3>1. T = {}
      BY <1>9, <2>1
    <3> QED BY <2>1, <3>1, FS_EmptySet
  <2>2. CASE right # {}
    <3>1. PICK r \in right : TRUE
      BY <2>2
    <3>2. right = {r} /\ T = {winner}
      BY <1>6, <1>9, <3>1
    <3>3. Cardinality({r}) = 1 /\ Cardinality({winner}) = 1
      BY FS_Singleton
    <3> QED BY <3>2, <3>3
  <2> QED BY <2>1, <2>2
<1> QED BY <1>11, <1>12 DEF T

(***************************************************************************)
(* Awards                                                                  *)
(***************************************************************************)
Finalists(p) ==
    {x \in scope.awards \X scope.slugs :
        /\ {<<"award", x[1]>>, <<"slug", x[1], x[2]>>} \cap ResultProblems(results) = {}
        /\ x[2] \in FinalistsOf(x[1])
        /\ Picked(p, "award", x[1], x[2])}

LEMMA AwardPicked ==
    ASSUME IInv, NEW p \in Player, NEW a, NEW s
    PROVE  <<a, s>> \in Finalists(p) <=>
             /\ s \in RecordedAwardFinalists(results, a)
             /\ \E r \in rows[p] : r.kind = "award" /\ r.of = a /\ s \in Seen(r.list)
<1>1. \A r \in rows[p] : r.kind = "award" => r.team = None
  BY RowsOK DEF IsRow
<1>2. s \in RecordedAwardFinalists(results, a) <=>
          /\ {<<"award", a>>, <<"slug", a, s>>} \cap ResultProblems(results) = {}
          /\ s \in FinalistsOf(a)
  BY AwardNotWarned DEF FinalistsOf
<1>3. s \in RecordedAwardFinalists(results, a) =>
          s # None /\ a \in scope.awards /\ s \in scope.slugs
  <2>1. results.finalists \in Section(scope.awards, SUBSET scope.slugs)
    BY DEF IInv
  <2>2. /\ DOMAIN results.finalists \subseteq scope.awards
        /\ \A b \in DOMAIN results.finalists : results.finalists[b] \subseteq scope.slugs
    BY <2>1, SectionEntry
  <2> QED BY <2>2, ScoringAssumption DEF RecordedAwardFinalists
<1>4. s # None => (Picked(p, "award", a, s) <=>
          \E r \in rows[p] : r.kind = "award" /\ r.of = a /\ s \in Seen(r.list))
  BY <1>1 DEF Picked, Seen
<1>5. <<a, s>> \in Finalists(p) <=>
          /\ a \in scope.awards /\ s \in scope.slugs
          /\ {<<"award", a>>, <<"slug", a, s>>} \cap ResultProblems(results) = {}
          /\ s \in FinalistsOf(a)
          /\ Picked(p, "award", a, s)
  BY DEF Finalists
<1> QED BY <1>2, <1>3, <1>4, <1>5

LEMMA AwardsFollowRules ==
    ASSUME IInv, NEW p \in Player, NEW F,
           \A r \in rows[p] : F[r] =
               IF r.kind = "award"
                 THEN AwardPoints(r.list, RecordedAwardFinalists(results, r.of))
               ELSE 0
    PROVE  /\ Cardinality(Finalists(p)) \in Nat
           /\ SumFunctionOnSet(F, rows[p]) = 5 * Cardinality(Finalists(p))
<1> DEFINE S == Finalists(p)
           five == [x \in S |-> 5]
           For(x, r) == r.kind = "award" /\ r.of = x[1] /\ x[2] \in Seen(r.list)
           key == [x \in S |-> CHOOSE r \in rows[p] : For(x, r)]
<1>1. IsFiniteSet(rows[p]) /\ \A r \in rows[p] : IsRow(r) /\ IsList(r.list)
  BY RowsOK DEF IsRow, IsList
<1>2. IsFiniteSet(S)
  <2>1. IsFiniteSet(scope.awards) /\ IsFiniteSet(scope.slugs)
    BY SeasonAssumption DEF IInv
  <2>2. IsFiniteSet(scope.awards \X scope.slugs)
    BY <2>1, FS_Product
  <2> QED BY <2>2, FS_Subset DEF Finalists
<1>3. \A x \in S : x = <<x[1], x[2]>>
  BY DEF Finalists
<1>4. \A x \in S : key[x] \in rows[p] /\ For(x, key[x])
  <2> SUFFICES ASSUME NEW x \in S PROVE key[x] \in rows[p] /\ For(x, key[x])
    OBVIOUS
  <2>1. \E r \in rows[p] : For(x, r)
    <3>1. <<x[1], x[2]>> \in Finalists(p)
      BY <1>3
    <3> QED BY <3>1, AwardPicked
  <2> QED BY <2>1
<1>5. key \in [S -> rows[p]]
  BY <1>4
<1>6. \A x \in S : five[x] = 5
  OBVIOUS
<1> HIDE DEF key, five
<1>7. ASSUME NEW r \in rows[p]
      PROVE  F[r] = SumFunctionOnSet(five, WithKey(S, key, r))
  <2> DEFINE group == WithKey(S, key, r)
             right == RecordedAwardFinalists(results, r.of) \cap Seen(r.list)
  <2>1. group \in SUBSET S /\ \A x \in S : x \in group <=> key[x] = r
    BY DEF WithKey
  <2>2. IsFiniteSet(group) /\ group \in SUBSET group
    BY <1>2, <2>1, FS_Subset
  <2>3. \A x \in group : five[x] = IF x \in group THEN 5 ELSE 0
    BY <1>6, <2>1
  <2>4. SumFunctionOnSet(five, group) = 5 * Cardinality(group)
    <3> HIDE DEF group
    <3> QED BY <2>2, <2>3, SumCounts
  <2>5. CASE r.kind # "award"
    <3>1. group = {}
      BY <1>4, <2>1, <2>5
    <3>2. F[r] = 0
      BY <2>5
    <3> HIDE DEF group
    <3>3. SumFunctionOnSet(five, group) = 0
      BY <3>1, SumEmpty
    <3> QED BY <3>2, <3>3 DEF group
  <2>6. CASE r.kind = "award"
    <3> DEFINE to == [s \in right |-> <<r.of, s>>]
    <3>1. \A s \in right : <<r.of, s>> \in group
      <4> SUFFICES ASSUME NEW s \in right PROVE <<r.of, s>> \in group
        OBVIOUS
      <4>1. <<r.of, s>> \in S
        BY <2>6, AwardPicked
      <4>2. For(<<r.of, s>>, key[<<r.of, s>>]) /\ key[<<r.of, s>>] \in rows[p]
        BY <1>4, <4>1
      <4>3. key[<<r.of, s>>].kind = r.kind /\ key[<<r.of, s>>].of = r.of
        BY <2>6, <4>2
      <4>4. key[<<r.of, s>>] = r
        BY <4>2, <4>3 DEF IInv
      <4> QED BY <2>1, <4>1, <4>4
    <3>2. \A x \in group : \E s \in right : <<r.of, s>> = x
      <4> SUFFICES ASSUME NEW x \in group PROVE \E s \in right : <<r.of, s>> = x
        OBVIOUS
      <4>1. x \in S /\ For(x, r)
        BY <1>4, <2>1
      <4>2. x = <<x[1], x[2]>> /\ r.of = x[1] /\ x[2] \in Seen(r.list)
        BY <1>3, <4>1
      <4>3. x[2] \in RecordedAwardFinalists(results, x[1])
        BY <4>1, <4>2, AwardPicked
      <4> QED BY <4>2, <4>3
    <3>3. to \in [right -> group] /\ \A s \in right : to[s] = <<r.of, s>>
      BY <3>1
    <3>4. ExistsBijection(right, group)
      <4> HIDE DEF to, right, group
      <4>1. to \in Bijection(right, group)
        BY <3>2, <3>3 DEF Bijection, Injection, Surjection, IsInjective
      <4> QED BY <4>1 DEF ExistsBijection
    <3>5. None \notin RecordedAwardFinalists(results, r.of)
      BY ScoringAssumption DEF RecordedAwardFinalists
    <3>6. /\ IsFiniteSet(right) /\ Cardinality(right) \in Nat
          /\ F[r] = 5 * Cardinality(right)
      <4>1. F[r] = AwardPoints(r.list, RecordedAwardFinalists(results, r.of))
        BY <2>6
      <4>2. IsList(r.list)
        BY <1>1
      <4> QED BY <3>5, <4>1, <4>2, CountSeen DEF AwardPoints
    <3>7. Cardinality(group) = Cardinality(right)
      <4> HIDE DEF right, group
      <4> QED BY <3>4, <3>6, FS_Bijection
    <3> HIDE DEF right
    <3> QED BY <2>4, <3>6, <3>7
  <2> QED BY <2>5, <2>6
<1>8. SumFunctionOnSet(F, rows[p]) = SumFunctionOnSet(five, S)
  <2>1. \A x \in S : five[x] \in Int
    BY <1>6
  <2> HIDE DEF S
  <2> QED BY <1>1, <1>2, <1>5, <1>7, <2>1, SumByKey
<1>9. SumFunctionOnSet(five, S) = 5 * Cardinality(S) /\ Cardinality(S) \in Nat
  <2>1. S \in SUBSET S /\ \A x \in S : five[x] = IF x \in S THEN 5 ELSE 0
    BY <1>6
  <2> HIDE DEF S
  <2> QED BY <1>2, <2>1, SumCounts
<1> QED BY <1>8, <1>9

(***************************************************************************)
(* Series                                                                  *)
(***************************************************************************)
LEMMA EndedUsable ==
    ASSUME NEW k
    PROVE  k \in Ended(ResultProblems(results)) <=>
             /\ k \in DOMAIN results.series
             /\ k[1] \in DOMAIN resultRounds
             /\ SeriesOutcomeUsable(SeriesOf(k), results.series[k])
BY SeriesNotWarned DEF Ended

(* The result of a series is under one key of the file at most.            *)
LEMMA SeriesKey ==
    ASSUME IInv, NEW k \in Ended(ResultProblems(results)),
           NEW l \in Ended(ResultProblems(results)), SeriesOf(k) = SeriesOf(l)
    PROVE  k = l
<1>1. results.series \in Section(scope.series, Outcome)
  BY DEF IInv
<1>2. k \in scope.series /\ l \in scope.series
  BY <1>1, SectionEntry, EndedUsable
<1>3. k = <<k[1], k[2]>> /\ l = <<l[1], l[2]>>
  BY <1>2, SeasonAssumption DEF IInv
<1>4. resultRounds[k[1]] = resultRounds[l[1]] /\ k[2] = l[2]
  BY DEF SeriesOf
<1>5. k[1] \in DOMAIN resultRounds /\ l[1] \in DOMAIN resultRounds
  BY EndedUsable
<1>6. k[1] = l[1]
  BY <1>4, <1>5 DEF resultRounds
<1> QED BY <1>3, <1>4, <1>6

LEMMA SeriesResultIs ==
    ASSUME IInv, NEW of
    PROVE  SeriesResult(results, of) =
             {results.series[k] : k \in {k \in Ended(ResultProblems(results)) :
                                             SeriesOf(k) = of}}
<1>1. \A k : (k \in DOMAIN results.series /\ k[1] \in DOMAIN resultRounds
              /\ SeriesOf(k) = of /\ SeriesOutcomeUsable(of, results.series[k]))
             <=> k \in Ended(ResultProblems(results)) /\ SeriesOf(k) = of
  BY EndedUsable
<1>2. {k \in DOMAIN results.series :
          /\ k[1] \in DOMAIN resultRounds
          /\ <<resultRounds[k[1]], k[2]>> = of
          /\ SeriesOutcomeUsable(of, results.series[k])}
      = {k \in Ended(ResultProblems(results)) : SeriesOf(k) = of}
  BY <1>1 DEF SeriesOf
<1> QED BY <1>2 DEF SeriesResult

(* A pick of a series that ended scores the value of the series.           *)
LEMMA PickOfEnded ==
    ASSUME IInv, NEW p \in Player, NEW r \in rows[p], r.kind = "series",
           NEW k \in Ended(ResultProblems(results)), SeriesOf(k) = r.of
    PROVE  SeriesPickPoints(results, r) = SeriesValue(p, k)
<1> DEFINE set == resultRounds[k[1]]
           outcome == results.series[k]
<1>1. SeriesResult(results, r.of) = {outcome}
  <2>1. {l \in Ended(ResultProblems(results)) : SeriesOf(l) = r.of} = {k}
    BY SeriesKey
  <2> QED BY <2>1, SeriesResultIs
<1>2. {q \in rows[p] : q.kind = "series" /\ q.of = <<set, k[2]>>} = {r}
  BY DEF IInv, SeriesOf
<1>3. set \in {"r1", "r2", "cf", "scf"} /\ r.of[1] = set
  <2>1. k[1] \in DOMAIN resultRounds
    BY EndedUsable
  <2>2. r.of[1] = set
    BY DEF SeriesOf
  <2> QED BY <2>1, <2>2 DEF resultRounds
<1>4. set \in DOMAIN seriesPoints
      /\ seriesPoints[set].exact = [r1 |-> 25, r2 |-> 35, cf |-> 45, scf |-> 50][set]
      /\ seriesPoints[set].winner = [r1 |-> 15, r2 |-> 25, cf |-> 30, scf |-> 30][set]
  BY <1>3 DEF seriesPoints
<1> HIDE DEF set
<1>5. SeriesPickPoints(results, r) =
          IF outcome.winner # r.team THEN 0
          ELSE IF outcome.games = r.games THEN seriesPoints[set].exact
          ELSE seriesPoints[set].winner
  <2>1. {o \in {outcome} : o.winner = r.team} =
            IF outcome.winner = r.team THEN {outcome} ELSE {}
    OBVIOUS
  <2> HIDE DEF outcome
  <2> QED BY <1>1, <1>3, <1>4, <2>1 DEF SeriesPickPoints
<1>6. SeriesValue(p, k) =
          IF outcome.winner # r.team THEN 0
          ELSE IF outcome.games = r.games
            THEN [r1 |-> 25, r2 |-> 35, cf |-> 45, scf |-> 50][set]
          ELSE [r1 |-> 15, r2 |-> 25, cf |-> 30, scf |-> 30][set]
  <2> DEFINE on == {q \in rows[p] : q.kind = "series" /\ q.of = <<set, k[2]>>}
             right == {q \in on : q.team = outcome.winner}
             exact == {q \in right : q.games = outcome.games}
  <2>1. SeriesValue(p, k) =
            IF exact # {} THEN [r1 |-> 25, r2 |-> 35, cf |-> 45, scf |-> 50][set]
            ELSE IF right # {} THEN [r1 |-> 15, r2 |-> 25, cf |-> 30, scf |-> 30][set]
            ELSE 0
    BY DEF SeriesValue, set
  <2>2. on = {r}
    BY <1>2
  <2> HIDE DEF on, outcome
  <2>3. /\ right # {} <=> r.team = outcome.winner
        /\ exact # {} <=> r.team = outcome.winner /\ r.games = outcome.games
    BY <2>2
  <2> HIDE DEF right, exact
  <2> QED BY <2>1, <2>3
<1> HIDE DEF outcome
<1> QED BY <1>4, <1>5, <1>6

(* Rows and ended series that are about each other correspond one to one;  *)
(* the others give nothing.                                                *)
LEMMA SeriesFollowRules ==
    ASSUME IInv, NEW p \in Player, NEW F,
           \A r \in rows[p] : F[r] =
               IF r.kind = "series" THEN SeriesPickPoints(results, r) ELSE 0,
           NEW V, \A k \in Ended(ResultProblems(results)) : V[k] = SeriesValue(p, k)
    PROVE  SumFunctionOnSet(F, rows[p]) =
               SumFunctionOnSet(V, Ended(ResultProblems(results)))
<1> DEFINE S == rows[p]
           E == Ended(ResultProblems(results))
           On(r, k) == r.kind = "series" /\ SeriesOf(k) = r.of
           SS == {r \in S : \E k \in E : On(r, k)}
           EE == {k \in E : \E r \in S : On(r, k)}
           to == [r \in SS |-> CHOOSE k \in E : On(r, k)]
<1>1. IsFiniteSet(S) /\ IsFiniteSet(E)
  <2>1. results.series \in Section(scope.series, Outcome)
    BY DEF IInv
  <2>2. E \subseteq scope.series
    BY <2>1, SectionEntry, EndedUsable
  <2>3. IsFiniteSet(scope.series)
    BY SeasonAssumption DEF IInv
  <2> HIDE DEF E
  <2> QED BY <2>2, <2>3, RowsOK, FS_Subset
<1>2. SS \in SUBSET S /\ EE \in SUBSET E /\ IsFiniteSet(SS) /\ IsFiniteSet(EE)
  <2>1. SS \in SUBSET S /\ EE \in SUBSET E
    OBVIOUS
  <2> HIDE DEF SS, EE, S, E
  <2> QED BY <1>1, <2>1, FS_Subset
<1>3. \A r \in S : F[r] \in Int
  <2>1. \A r \in S : SeriesPickPoints(results, r) \in Nat
    BY SeriesPickPointsNat
  <2> QED BY <2>1
<1>4. \A k \in E : V[k] \in Int
  <2>1. \A k \in E : resultRounds[k[1]] \in {"r1", "r2", "cf", "scf"}
    BY EndedUsable DEF resultRounds
  <2>2. \A set \in {"r1", "r2", "cf", "scf"} :
            /\ [r1 |-> 25, r2 |-> 35, cf |-> 45, scf |-> 50][set] \in Int
            /\ [r1 |-> 15, r2 |-> 25, cf |-> 30, scf |-> 30][set] \in Int
    OBVIOUS
  <2>3. \A k \in E : SeriesValue(p, k) \in Int
    BY <2>1, <2>2 DEF SeriesValue
  <2> QED BY <2>3
<1>5. \A r \in S \ SS : F[r] = 0
  <2> SUFFICES ASSUME NEW r \in S, r.kind = "series", \A k \in E : SeriesOf(k) # r.of
               PROVE  F[r] = 0
    OBVIOUS
  <2>1. {k \in E : SeriesOf(k) = r.of} = {}
    OBVIOUS
  <2>2. SeriesResult(results, r.of) = {}
    BY <2>1, SeriesResultIs
  <2>3. SeriesPickPoints(results, r) = 0
    BY <2>2 DEF SeriesPickPoints
  <2> QED BY <2>3
<1>6. \A k \in E \ EE : V[k] = 0
  <2> SUFFICES ASSUME NEW k \in E, \A r \in S : ~On(r, k)
               PROVE  V[k] = 0
    OBVIOUS
  <2> DEFINE on == {r \in rows[p] : r.kind = "series"
                                    /\ r.of = <<resultRounds[k[1]], k[2]>>}
  <2>1. on = {}
    BY DEF SeriesOf
  <2>2. SeriesValue(p, k) = 0
    BY <2>1 DEF SeriesValue
  <2> QED BY <2>2
<1>7. \A r \in SS : to[r] \in E /\ On(r, to[r])
  OBVIOUS
<1>8. to \in [SS -> EE]
  <2>1. \A r \in SS : to[r] \in EE
    BY <1>2, <1>7
  <2> QED BY <2>1
<1>9. \A r \in SS : V[to[r]] = F[r]
  <2> HIDE DEF to, SS
  <2> QED BY <1>2, <1>7, PickOfEnded
<1>10. to \in Bijection(SS, EE)
  <2>1. \A r, q \in SS : to[r] = to[q] => r = q
    <3> HIDE DEF to, SS
    <3> QED BY <1>2, <1>7 DEF IInv
  <2>2. \A k \in EE : \E r \in SS : to[r] = k
    <3> SUFFICES ASSUME NEW k \in EE PROVE \E r \in SS : to[r] = k
      OBVIOUS
    <3>1. PICK r \in S : On(r, k)
      OBVIOUS
    <3>2. r \in SS
      BY <3>1
    <3>3. to[r] \in E /\ SeriesOf(to[r]) = SeriesOf(k)
      BY <1>7, <3>1, <3>2
    <3>4. to[r] = k
      BY <3>3, SeriesKey
    <3> QED BY <3>2, <3>4
  <2> HIDE DEF to, SS, EE
  <2> QED BY <1>8, <2>1, <2>2 DEF Bijection, Injection, Surjection, IsInjective
<1> HIDE DEF S, E, SS, EE, to
<1>11. SumFunctionOnSet(F, S) = SumFunctionOnSet(F, SS)
  BY <1>1, <1>2, <1>3, <1>5, SumSupport
<1>12. SumFunctionOnSet(V, E) = SumFunctionOnSet(V, EE)
  BY <1>1, <1>2, <1>4, <1>6, SumSupport
<1>13. SumFunctionOnSet(V, EE) = SumFunctionOnSet(F, SS)
  <2>1. \A r \in SS : F[r] \in Int
    BY <1>2, <1>3
  <2> QED BY <1>2, <1>9, <1>10, <2>1, SumRenamed
<1> QED BY <1>11, <1>12, <1>13 DEF S, E

(***************************************************************************)
(* The two buckets                                                         *)
(***************************************************************************)
LEMMA MarksSum ==
    ASSUME IInv, NEW p \in Player, NEW marks,
           \A d \in Division : \A t \in Names :
               marks[<<d, t>>] = MarkValue(ResultProblems(results), p, d, t)
    PROVE  SumFunctionOnSet(DivisionTerms(results, rows[p]), Division) =
               SumFunctionOnSet(marks, Division \X Names)
<1> DEFINE V(d) == [t \in Names |-> MarkValue(ResultProblems(results), p, d, t)]
           to(d) == [t \in Names |-> <<d, t>>]
<1>1. IsFiniteSet(Division) /\ IsFiniteSet(Names)
  BY ScoringAssumption, NamesFinite
<1>2. \A d \in Division : \A t \in Names : V(d)[t] \in Int /\ marks[<<d, t>>] = V(d)[t]
  <2>1. \A d, t : MarkValue(ResultProblems(results), p, d, t) \in Int
    BY DEF MarkValue
  <2>2. \A d : \A t \in Names : V(d)[t] = MarkValue(ResultProblems(results), p, d, t)
    OBVIOUS
  <2> HIDE DEF V
  <2> QED BY <2>1, <2>2
<1>3. \A d \in Division : \A t \in Names : marks[<<d, t>>] \in Int
  <2> HIDE DEF V
  <2> QED BY <1>2
<1>4. ASSUME NEW d \in Division
      PROVE  DivisionTerms(results, rows[p])[d] = SumFunctionOnSet(marks, RowOf(d, Names))
  <2>1. PicksOf(results, rows[p], d) = SumFunctionOnSet(V(d), Names)
    <3>1. \A t \in Names : V(d)[t] = MarkValue(ResultProblems(results), p, d, t)
      OBVIOUS
    <3> HIDE DEF V
    <3> QED BY <3>1, DivisionFollowsRules
  <2>2. to(d) \in [Names -> {d} \X Names] /\ \A t \in Names : to(d)[t] = <<d, t>>
    OBVIOUS
  <2>3. \A x \in {d} \X Names : \E t \in Names : x = <<d, t>>
    OBVIOUS
  <2>4. IsFiniteSet({d} \X Names)
    BY <1>1, FS_Singleton, FS_Product
  <2> HIDE DEF to, V
  <2>5. to(d) \in Bijection(Names, {d} \X Names)
    <3>1. PICK T : T = {d} \X Names
      OBVIOUS
    <3>2. to(d) \in [Names -> T] /\ \A x \in T : \E t \in Names : to(d)[t] = x
      BY <2>2, <2>3, <3>1
    <3>3. \A t, u \in Names : to(d)[t] = to(d)[u] => t = u
      BY <2>2
    <3>4. to(d) \in Bijection(Names, T)
      BY <3>2, <3>3 DEF Bijection, Injection, Surjection, IsInjective
    <3> QED BY <3>1, <3>4
  <2>6. \A t \in Names : V(d)[t] \in Int /\ marks[to(d)[t]] = V(d)[t]
    BY <1>2, <2>2
  <2>7. SumFunctionOnSet(marks, {d} \X Names) = SumFunctionOnSet(V(d), Names)
    <3>1. PICK T : T = {d} \X Names
      OBVIOUS
    <3>2. PICK v : v = V(d)
      OBVIOUS
    <3>3. PICK f : f = to(d)
      OBVIOUS
    <3>4. /\ \A t \in Names : v[t] \in Int /\ marks[f[t]] = v[t]
          /\ f \in Bijection(Names, T) /\ IsFiniteSet(T)
      BY <2>4, <2>5, <2>6, <3>1, <3>2, <3>3
    <3>5. SumFunctionOnSet(marks, T) = SumFunctionOnSet(v, Names)
      BY <1>1, <3>4, SumRenamed
    <3> QED BY <3>1, <3>2, <3>5
  <2>8. DivisionTerms(results, rows[p])[d] = PicksOf(results, rows[p], d)
    BY DEF DivisionTerms
  <2> QED BY <2>1, <2>7, <2>8 DEF RowOf
<1>5. PICK H : H = DivisionTerms(results, rows[p])
  OBVIOUS
<1>6. \A d \in Division : H[d] = SumFunctionOnSet(marks, RowOf(d, Names))
  BY <1>4, <1>5
<1>7. SumFunctionOnSet(H, Division) = SumFunctionOnSet(marks, Division \X Names)
  BY <1>1, <1>3, <1>6, SumPairs
<1> QED BY <1>5, <1>7

LEMMA RegularFollowsRules ==
    ASSUME IInv, NEW p \in Player
    PROVE  SumFunctionOnSet(RegularTerms(results, rows[p]), rows[p]) =
               5 * Cardinality(Finalists(p))
               + 20 * Cardinality(Trophies(p, "presidents", "presidents"))
               + 20 * Cardinality(Trophies(p, "cup", "cup"))
<1> DEFINE S == rows[p]
           K == RegularTerms(results, S)
           trophy(kind, f) == [r \in S |->
               IF r.kind = kind THEN TrophyPoints(r.team, KnownTeamOrEmpty(results[f]), 20)
               ELSE 0]
           awards == [r \in S |->
               IF r.kind = "award"
                 THEN AwardPoints(r.list, RecordedAwardFinalists(results, r.of))
               ELSE 0]
           presidents == trophy("presidents", "presidents")
           cup == trophy("cup", "cup")
           both == [r \in S |-> presidents[r] + cup[r]]
<1>1. IsFiniteSet(S) /\ \A r \in S : IsRow(r) /\ IsList(r.list)
  BY RowsOK DEF IsRow, IsList
<1>2. \A r \in S : awards[r] \in Int
  BY <1>1, AwardPointsNat
<1>3. \A r \in S : presidents[r] \in Int /\ cup[r] \in Int
  BY DEF TrophyPoints
<1>4. \A r \in S : K[r] = awards[r] + both[r]
  <2> SUFFICES ASSUME NEW r \in S PROVE K[r] = awards[r] + both[r]
    OBVIOUS
  <2>1. AwardPoints(r.list, RecordedAwardFinalists(results, r.of)) \in Int
    BY <1>1, AwardPointsNat
  <2>2. \A w : TrophyPoints(r.team, w, 20) \in Int
    BY DEF TrophyPoints
  <2>3. K[r] = RegularPoints(results, r)
    BY DEF RegularTerms
  <2>4. both[r] = presidents[r] + cup[r]
    OBVIOUS
  <2> QED BY <2>1, <2>2, <2>3, <2>4 DEF RegularPoints
<1>5. SumFunctionOnSet(awards, S) = 5 * Cardinality(Finalists(p))
  <2>1. \A r \in S : awards[r] =
            IF r.kind = "award"
              THEN AwardPoints(r.list, RecordedAwardFinalists(results, r.of))
            ELSE 0
    OBVIOUS
  <2> HIDE DEF awards
  <2> QED BY <2>1, AwardsFollowRules
<1>6. SumFunctionOnSet(presidents, S) =
          20 * Cardinality(Trophies(p, "presidents", "presidents"))
  <2>1. \A r \in S : presidents[r] =
            IF r.kind = "presidents"
              THEN TrophyPoints(r.team, KnownTeamOrEmpty(results["presidents"]), 20)
            ELSE 0
    OBVIOUS
  <2> HIDE DEF presidents
  <2> QED BY <2>1, TrophyFollowsRules
<1>7. SumFunctionOnSet(cup, S) = 20 * Cardinality(Trophies(p, "cup", "cup"))
  <2>1. \A r \in S : cup[r] =
            IF r.kind = "cup"
              THEN TrophyPoints(r.team, KnownTeamOrEmpty(results["cup"]), 20)
            ELSE 0
    OBVIOUS
  <2> HIDE DEF cup
  <2> QED BY <2>1, TrophyFollowsRules
<1>8. \A r \in S : both[r] = presidents[r] + cup[r] /\ both[r] \in Int
  <2>1. \A r \in S : both[r] = presidents[r] + cup[r]
    OBVIOUS
  <2> HIDE DEF both, presidents, cup
  <2> QED BY <1>3, <2>1
<1> HIDE DEF S, K, awards, presidents, cup, both
<1>9. SumFunctionOnSet(both, S) =
          SumFunctionOnSet(presidents, S) + SumFunctionOnSet(cup, S)
  BY <1>1, <1>3, <1>8, SumPlus
<1>10. SumFunctionOnSet(K, S) = SumFunctionOnSet(awards, S) + SumFunctionOnSet(both, S)
  BY <1>1, <1>2, <1>4, <1>8, SumPlus
<1>11. /\ SumFunctionOnSet(awards, S) \in Int
       /\ SumFunctionOnSet(presidents, S) \in Int
       /\ SumFunctionOnSet(cup, S) \in Int
  BY <1>1, <1>2, <1>3, SumInteger
<1> QED
  <2>1. SumFunctionOnSet(K, S) = SumFunctionOnSet(awards, S)
            + SumFunctionOnSet(presidents, S) + SumFunctionOnSet(cup, S)
    BY <1>9, <1>10, <1>11
  <2> QED BY <1>5, <1>6, <1>7, <2>1 DEF K, S

LEMMA PlayoffFollowsRules ==
    ASSUME IInv, NEW p \in Player, NEW V,
           \A k \in Ended(ResultProblems(results)) : V[k] = SeriesValue(p, k)
    PROVE  SumFunctionOnSet(PlayoffTerms(results, rows[p]), rows[p]) =
               SumFunctionOnSet(V, Ended(ResultProblems(results)))
               + 20 * Cardinality(Trophies(p, "playoffcup", "cup"))
<1> DEFINE S == rows[p]
           K == PlayoffTerms(results, S)
           series == [r \in S |->
               IF r.kind = "series" THEN SeriesPickPoints(results, r) ELSE 0]
           cup == [r \in S |->
               IF r.kind = "playoffcup"
                 THEN TrophyPoints(r.team, KnownTeamOrEmpty(results["cup"]), 20)
               ELSE 0]
<1>1. IsFiniteSet(S)
  BY RowsOK
<1>2. \A r \in S : series[r] = IF r.kind = "series" THEN SeriesPickPoints(results, r) ELSE 0
  OBVIOUS
<1>3. \A r \in S : cup[r] =
          IF r.kind = "playoffcup"
            THEN TrophyPoints(r.team, KnownTeamOrEmpty(results["cup"]), 20)
          ELSE 0
  OBVIOUS
<1> HIDE DEF series, cup
<1>4. \A r \in S : /\ K[r] = series[r] + cup[r]
                   /\ series[r] \in Int /\ cup[r] \in Int
  <2> SUFFICES ASSUME NEW r \in S
               PROVE  /\ K[r] = series[r] + cup[r]
                      /\ series[r] \in Int /\ cup[r] \in Int
    OBVIOUS
  <2>1. SeriesPickPoints(results, r) \in Int
    BY SeriesPickPointsNat
  <2>2. \A w : TrophyPoints(r.team, w, 20) \in Int
    BY DEF TrophyPoints
  <2>3. K[r] = PlayoffPoints(results, r)
    BY DEF PlayoffTerms
  <2> QED BY <1>2, <1>3, <2>1, <2>2, <2>3 DEF PlayoffPoints
<1>5. SumFunctionOnSet(series, S) = SumFunctionOnSet(V, Ended(ResultProblems(results)))
  BY <1>2, SeriesFollowRules
<1>6. SumFunctionOnSet(cup, S) = 20 * Cardinality(Trophies(p, "playoffcup", "cup"))
  BY <1>3, TrophyFollowsRules
<1> HIDE DEF K
<1>7. SumFunctionOnSet(K, S) = SumFunctionOnSet(series, S) + SumFunctionOnSet(cup, S)
  <2> HIDE DEF S
  <2> QED BY <1>1, <1>4, SumPlus
<1> QED BY <1>5, <1>6, <1>7 DEF K

(* At every moment everybody's points are what the rules of the game give  *)
(* for the values recorded that no startup warning names.                  *)
THEOREM PointsAreByTheRules == Spec => []PointsFollowTheRules
<1>1. ASSUME IInv, NEW p \in scope.players
      PROVE  PointsOf(p) = RulePoints(p)
  <2> DEFINE warned == ResultProblems(results)
             marks == [x \in Division \X Names |-> MarkValue(warned, p, x[1], x[2])]
             series == [k \in Ended(warned) |-> SeriesValue(p, k)]
  <2>1. p \in Player
    BY <1>1, SeasonAssumption DEF IInv, Player
  <2>2. IsFiniteSet(rows[p]) /\ \A r \in rows[p] : IsRow(r)
    BY <1>1, <2>1, RowsOK
  <2>3. SumFunctionOnSet(DivisionTerms(results, rows[p]), Division) = SumFunction(marks)
    <3>1. DOMAIN marks = Division \X Names
          /\ \A d \in Division : \A t \in Names : marks[<<d, t>>] = MarkValue(warned, p, d, t)
      OBVIOUS
    <3> HIDE DEF marks
    <3> QED BY <1>1, <2>1, <3>1, MarksSum DEF SumFunction
  <2>4. SumFunctionOnSet(RegularTerms(results, rows[p]), rows[p]) =
            5 * Cardinality(Finalists(p))
            + 20 * Cardinality(Trophies(p, "presidents", "presidents"))
            + 20 * Cardinality(Trophies(p, "cup", "cup"))
    BY <1>1, <2>1, RegularFollowsRules
  <2>5. SumFunctionOnSet(PlayoffTerms(results, rows[p]), rows[p]) =
            SumFunction(series) + 20 * Cardinality(Trophies(p, "playoffcup", "cup"))
    <3>1. DOMAIN series = Ended(warned)
          /\ \A k \in Ended(warned) : series[k] = SeriesValue(p, k)
      OBVIOUS
    <3> HIDE DEF series
    <3> QED BY <1>1, <2>1, <3>1, PlayoffFollowsRules DEF SumFunction
  <2>6. PointsOf(p) =
            [regular |-> SumFunctionOnSet(DivisionTerms(results, rows[p]), Division)
                         + SumFunctionOnSet(RegularTerms(results, rows[p]), rows[p]),
             playoff |-> SumFunctionOnSet(PlayoffTerms(results, rows[p]), rows[p])]
    <3>1. /\ DOMAIN DivisionTerms(results, rows[p]) = Division
          /\ DOMAIN RegularTerms(results, rows[p]) = rows[p]
          /\ DOMAIN PlayoffTerms(results, rows[p]) = rows[p]
      BY DEF DivisionTerms, RegularTerms, PlayoffTerms
    <3>2. PointsOf(p) =
              [regular |-> SumFunction(DivisionTerms(results, rows[p]))
                           + SumFunction(RegularTerms(results, rows[p])),
               playoff |-> SumFunction(PlayoffTerms(results, rows[p]))]
      BY DEF PointsOf, PlayerPoints, DivisionsPoints, PicksOf, DivisionTerms,
             RegularTerms, PlayoffTerms
    <3> QED BY <3>1, <3>2 DEF SumFunction
  <2>7. RulePoints(p) =
            [regular |-> SumFunction(marks)
                         + 5 * Cardinality(Finalists(p))
                         + 20 * Cardinality(Trophies(p, "presidents", "presidents"))
                         + 20 * Cardinality(Trophies(p, "cup", "cup")),
             playoff |-> SumFunction(series)
                         + 20 * Cardinality(Trophies(p, "playoffcup", "cup"))]
    BY DEF RulePoints, Finalists, Trophies, Names
  <2>8. /\ SumFunction(marks) \in Int
        /\ \A kind \in {"presidents", "cup", "playoffcup"} :
              \A f \in {"presidents", "cup"} : Cardinality(Trophies(p, kind, f)) \in Int
        /\ Cardinality(Finalists(p)) \in Int
    <3>1. SumFunction(marks) \in Int
      BY <2>2, <2>3, PointsAreSums
    <3>2. ASSUME NEW kind \in {"presidents", "cup", "playoffcup"},
                 NEW f \in {"presidents", "cup"}
          PROVE  Cardinality(Trophies(p, kind, f)) \in Int
      <4> DEFINE F == [r \in rows[p] |->
              IF r.kind = kind
                THEN TrophyPoints(r.team, KnownTeamOrEmpty(results[f]), 20)
              ELSE 0]
      <4>1. \A r \in rows[p] : F[r] =
              IF r.kind = kind
                THEN TrophyPoints(r.team, KnownTeamOrEmpty(results[f]), 20)
              ELSE 0
        OBVIOUS
      <4> HIDE DEF F
      <4>2. Cardinality(Trophies(p, kind, f)) \in Nat
        BY <1>1, <2>1, <4>1, TrophyFollowsRules
      <4> QED BY <4>2
    <3>3. Cardinality(Finalists(p)) \in Int
      <4> DEFINE F == [r \in rows[p] |->
              IF r.kind = "award"
                THEN AwardPoints(r.list, RecordedAwardFinalists(results, r.of))
              ELSE 0]
      <4>1. \A r \in rows[p] : F[r] =
              IF r.kind = "award"
                THEN AwardPoints(r.list, RecordedAwardFinalists(results, r.of))
              ELSE 0
        OBVIOUS
      <4> HIDE DEF F
      <4>2. Cardinality(Finalists(p)) \in Nat
        BY <1>1, <2>1, <4>1, AwardsFollowRules
      <4> QED BY <4>2
    <3> HIDE DEF marks
    <3> QED BY <3>1, <3>2, <3>3
  <2> HIDE DEF marks, series, warned
  <2>9. SumFunction(marks)
            + (5 * Cardinality(Finalists(p))
               + 20 * Cardinality(Trophies(p, "presidents", "presidents"))
               + 20 * Cardinality(Trophies(p, "cup", "cup")))
        = SumFunction(marks) + 5 * Cardinality(Finalists(p))
          + 20 * Cardinality(Trophies(p, "presidents", "presidents"))
          + 20 * Cardinality(Trophies(p, "cup", "cup"))
    BY <2>8
  <2> QED BY <2>3, <2>4, <2>5, <2>6, <2>7, <2>9
<1>2. IInv => PointsFollowTheRules
  BY <1>1 DEF PointsFollowTheRules
<1> QED BY <1>2, SeasonInvariant, PTL
=============================================================================
